---- MODULE Spec2Model ----
(***************************************************************************)
(* A model of the capture-to-media pipeline of rtspcap: the generic        *)
(* Reassembler, the per-flow RTSPSession (RTSP parsing and interleaved     *)
(* framing) and the RTSPDataExtractor that associates RTP identities with  *)
(* decoder ids.                                                            *)
(*                                                                         *)
(* Python's Optional[T] is written as a sequence of length 0 or 1:         *)
(* None is <<>> and a value x is <<x>>.                                    *)
(***************************************************************************)
EXTENDS Integers, Sequences, FiniteSets, TLC

VARIABLES
    reasm,      \* a Reassembler[RTPPacket] object (packet mode)
    fed,        \* the (packet, seq) arguments of the process calls so far
    r_last,     \* the kind of the last call on reasm
    sess,       \* an RTSPSession object
    s_last,     \* the last call on sess
    s_calls,    \* the number of process_packet calls on sess so far
    s_ended,    \* process_packet has been given a FIN segment or None
    s_complete, \* a call has left sess with SDP and one header per media
    s_raised,   \* the last call on sess raised
    wire,       \* the interleaved bytes the server has still to send
    frames,     \* the frames the server sends: (channel, RTP packet) pairs, and the junk before
    yielded,    \* the RTP packets get_rtp has yielded so far
    extractor,  \* an RTSPDataExtractor object inside process_next
    pass,       \* the loop of process_next that is running
    n_rtsp,     \* capture records from an RTSP port that the running loop has still to read
    n_other,    \* other capture records that the running loop has still to read
    rtp_decoders, \* the dictionary of RTPDecoder objects of RTSPDecoder.run
    run_error,  \* the exception that left RTSPDecoder.run, if any
    arg,        \* the argument of a function that is checked on its own
    result,     \* what the function returned for it
    slot,       \* an RTPDecoder object of src/rtspcap/rtp.py with its codec and its output
    rtp_stream, \* the RTP stream it is given: what the sender and the libraries do
    payload_ctx, \* the payload context of a depacketizer (AACContext, H264Context)
    rtp_in,     \* the RTP packets its handle_packet was given so far
    av_out      \* the codec packets its handle_packet returned so far

rvars == <<reasm, fed, r_last>>
svars == <<sess, s_last, s_calls, s_ended, s_complete, s_raised>>
fvars == <<wire, frames, yielded>>
evars == <<extractor, pass, n_rtsp, n_other, rtp_decoders, run_error>>
pvars == <<arg, result>>
dvars == <<slot, rtp_stream>>
cvars == <<payload_ctx, rtp_in, av_out>>

vars == <<reasm, fed, r_last, sess, s_last, s_calls, s_ended, s_complete, s_raised,
          wire, frames, yielded, extractor, pass, n_rtsp, n_other,
          rtp_decoders, run_error, arg, result, slot, rtp_stream,
          payload_ctx, rtp_in, av_out>>

(***************************************************************************)
(* Bounds of the model                                                     *)
(***************************************************************************)
\* bit width W of the sequence space of the modelled Reassembler
SeqBits == 2
\* window K (max_out_of_order) of the modelled Reassembler
MaxOutOfOrder == 2
\* number of process calls on the modelled Reassembler
MaxFed == 4
\* bit width of the TCP sequence space of the model (32 in the program, which
\* is beyond the integers of the model checker)
TcpSeqBits == 3
\* window of the byte reassembler of a session (RTSPSession.MAX_OUT_OF_ORDER
\* is 30 in the program)
SessionMaxOutOfOrder == 2
\* number of process_packet calls on the modelled RTSPSession
MaxSegments == 4
\* number of interleaved frames on the wire
MaxFrames == 2
\* number of junk bytes before the first frame
MaxJunk == 5
\* number of capture records that come from an RTSP port
MaxRtsp == 3
\* number of other capture records
MaxRtp == 3
\* NAL units of an aggregated packet, and bytes of a NAL unit
MaxNalUnits == 2
MaxNalSize == 2
\* bytes of an accumulator that the frame loop is run on, before a whole frame
MaxBuffer == 5

None == <<>>
Some(x) == <<x>>

Min(S) == CHOOSE x \in S : \A y \in S : x <= y

RECURSIVE Pow2(_)
Pow2(n) == IF n = 0 THEN 1 ELSE 2 * Pow2(n - 1)

(***************************************************************************)
(* Reassembler (src/rtsp_decoder/reassembler.py)                           *)
(***************************************************************************)
EmptyMap == [k \in {} |-> None]

\* dict.pop(key) and dict[key] = value
MapPop(m, k) == [x \in (DOMAIN m) \ {k} |-> m[x]]
MapPut(m, k, v) == [x \in (DOMAIN m) \cup {k} |-> IF x = k THEN v ELSE m[x]]

\* Reassembler.__init__
Reassembler(seq_bit_size, max_out_of_order, mode) ==
    [ seq_bit_size |-> seq_bit_size,
      max_out_of_order |-> max_out_of_order,
      mode |-> mode,
      out_of_order_packets |-> EmptyMap,
      expected_seq |-> None,
      output_queue |-> <<>>,
      done |-> FALSE ]

\* the seq_size of _increment_expected_seq: 1 per packet, len(packet) for data
SeqSize(mode, packet) == IF mode = "packet" THEN 1 ELSE Len(packet)

\* a mutant of IncrementExpectedSeq: the modulo is forgotten
IncrementExpectedSeq_NoWrap(r, packet) ==
    [r EXCEPT !.expected_seq = Some(r.expected_seq[1] + SeqSize(r.mode, packet))]

\* Reassembler._increment_expected_seq
IncrementExpectedSeq(r, packet) ==
    [r EXCEPT !.expected_seq =
        Some((r.expected_seq[1] + SeqSize(r.mode, packet)) % Pow2(r.seq_bit_size))]

\* a mutant of DumpRemaining: the packets left are emitted without a flag
RECURSIVE DumpRemaining_Unflagged(_)
DumpRemaining_Unflagged(r) ==
    IF DOMAIN r.out_of_order_packets = {} THEN r
    ELSE LET earliest_packet_seq == Min(DOMAIN r.out_of_order_packets)
             packet == r.out_of_order_packets[earliest_packet_seq]
             r1 == [r EXCEPT
                      !.out_of_order_packets = MapPop(@, earliest_packet_seq),
                      !.output_queue = Append(@, <<Some(packet), FALSE>>)]
         IN  DumpRemaining_Unflagged(IncrementExpectedSeq(r1, packet))

\* the loop "while self._out_of_order_packets" of the end of processing
RECURSIVE DumpRemaining(_)
DumpRemaining(r) ==
    IF DOMAIN r.out_of_order_packets = {} THEN r
    ELSE LET earliest_packet_seq == Min(DOMAIN r.out_of_order_packets)
             skipped == earliest_packet_seq # r.expected_seq[1]
             packet == r.out_of_order_packets[earliest_packet_seq]
             r1 == [r EXCEPT
                      !.out_of_order_packets = MapPop(@, earliest_packet_seq),
                      !.output_queue = Append(@, <<Some(packet), skipped>>),
                      !.expected_seq = IF skipped THEN Some(earliest_packet_seq) ELSE @]
         IN  DumpRemaining(IncrementExpectedSeq(r1, packet))

\* the loop "while True" that follows a forced rebase
RECURSIVE DrainContiguous(_, _)
DrainContiguous(r, next_packet) ==
    LET r1 == IncrementExpectedSeq(r, next_packet)
    IN  IF r1.expected_seq[1] \notin DOMAIN r1.out_of_order_packets THEN r1
        ELSE LET p == r1.out_of_order_packets[r1.expected_seq[1]]
             IN  DrainContiguous(
                    [r1 EXCEPT !.out_of_order_packets = MapPop(@, r1.expected_seq[1]),
                               !.output_queue = Append(@, <<Some(p), FALSE>>)],
                    p)

\* mutants of BelowHoldLimit: an off-by-one limit, and a limit that is two too large
BelowHoldLimit_Inclusive(r) ==
    Cardinality(DOMAIN r.out_of_order_packets) <= r.max_out_of_order
BelowHoldLimit_Late(r) ==
    Cardinality(DOMAIN r.out_of_order_packets) < r.max_out_of_order + 2

\* "len(self._out_of_order_packets) < self._max_out_of_order"
BelowHoldLimit(r) ==
    Cardinality(DOMAIN r.out_of_order_packets) < r.max_out_of_order

\* "if seq > self._expected_seq": a plain integer comparison
AheadOfExpected(r, seq) == seq > r.expected_seq[1]

\* mutant of ForceProgress: the rebase emits the smallest held packet only
ForceProgress_NoDrain(r) ==
    LET e == Min(DOMAIN r.out_of_order_packets)
        next_packet == r.out_of_order_packets[e]
    IN  IncrementExpectedSeq(
            [r EXCEPT !.expected_seq = Some(e),
                      !.out_of_order_packets = MapPop(@, e),
                      !.output_queue = Append(@, <<Some(next_packet), TRUE>>)],
            next_packet)

\* mutant of ForceProgress: the rebase emits the smallest held packet and
\* leaves it in the table
ForceProgress_NoPop(r) ==
    LET e == Min(DOMAIN r.out_of_order_packets)
        next_packet == r.out_of_order_packets[e]
    IN  DrainContiguous(
            [r EXCEPT !.expected_seq = Some(e),
                      !.output_queue = Append(@, <<Some(next_packet), TRUE>>)],
            next_packet)

\* the rebase of the expected sequence number onto the smallest held one
ForceProgress(r) ==
    LET e == Min(DOMAIN r.out_of_order_packets)
        next_packet == r.out_of_order_packets[e]
    IN  DrainContiguous(
            [r EXCEPT !.expected_seq = Some(e),
                      !.out_of_order_packets = MapPop(@, e),
                      !.output_queue = Append(@, <<Some(next_packet), TRUE>>)],
            next_packet)

\* Reassembler.process(packet, seq) of a reassembler that is not done;
\* packet is None or Some(p)
Process(r, packet, seq) ==
    LET r0 == IF r.expected_seq = None THEN [r EXCEPT !.expected_seq = Some(seq)] ELSE r
    IN  IF packet = None
        THEN LET r1 == DumpRemaining([r0 EXCEPT !.done = TRUE])
             IN  [r1 EXCEPT !.output_queue = Append(@, <<None, FALSE>>)]
        ELSE IF seq # r0.expected_seq[1]
        THEN LET r1 == IF AheadOfExpected(r0, seq)
                       THEN [r0 EXCEPT !.out_of_order_packets = MapPut(@, seq, packet[1])]
                       ELSE r0
             IN  IF BelowHoldLimit(r1) THEN r1 ELSE ForceProgress(r1)
        ELSE IncrementExpectedSeq(
                [r0 EXCEPT !.output_queue = Append(@, <<packet, FALSE>>)], packet[1])

\* Reassembler.process(packet, seq) from its first line: the object it leaves
\* and whether it raised ValueError("Reassembler is done")
ProcessCall(r, packet, seq) ==
    IF r.done THEN [reassembler |-> r, raised |-> TRUE]
    ELSE [reassembler |-> Process(r, packet, seq), raised |-> FALSE]

(***************************************************************************)
(* RTSP responses on the wire.  The HTTP-like parser (dpkt's Response) is  *)
(* outside the repository: a response is modelled as two bytes, a status   *)
(* line byte followed by a byte that stands for its headers and body.      *)
(***************************************************************************)
\* the byte that stands for the status line "RTSP/1.0 200 OK"
STATUS_LINE == 82

\* an SDP with one media description for each payload type, with its codec
\* name (the rtpmap line)
Sdp(pts, codecs) ==
    [media |-> [i \in 1 .. Len(pts) |->
                   [payloads |-> pts[i], rtp |-> <<[codec |-> codecs[i]]>>]]]

\* RTSPTransportHeader: protocol and options; "N-M" is written <<N, M>>
TransportUDP(client_port, server_port) ==
    [protocol |-> "rtp/avp",
     options |-> [client_port |-> client_port, server_port |-> server_port]]
TransportTCP(interleaved) ==
    [protocol |-> "rtp/avp/tcp", options |-> [interleaved |-> interleaved]]

\* what the second byte of a response stands for
ResponseCodes == 1 .. 7
RTSPResponse(code) ==
    CASE code = 1 -> [status |-> 200, sdp |-> Some(Sdp(<<96>>, <<"H264">>)), transport |-> None]
      [] code = 2 -> [status |-> 200, sdp |-> Some(Sdp(<<96, 97>>, <<"H264", "mpeg4-generic">>)), transport |-> None]
      [] code = 3 -> [status |-> 200, sdp |-> None,
                      transport |-> Some(TransportUDP(<<5000, 5001>>, <<6000, 6001>>))]
      [] code = 4 -> [status |-> 200, sdp |-> None,
                      transport |-> Some(TransportUDP(<<5002, 5003>>, <<6002, 6003>>))]
      [] code = 5 -> [status |-> 200, sdp |-> None,
                      transport |-> Some(TransportTCP(<<0, 1>>))]
      [] code = 6 -> [status |-> 200, sdp |-> None, transport |-> None]
      [] code = 7 -> [status |-> 200, sdp |-> Some(Sdp(<<96>>, <<"VP9">>)), transport |-> None]

\* RTSPResponse(self._buffer): NeedData, UnpackError, or a response and the
\* data left over
ParseResponse(buf) ==
    IF buf = <<>> THEN [result |-> "UnpackError"]
    ELSE IF buf[1] # STATUS_LINE THEN [result |-> "UnpackError"]
    ELSE IF Len(buf) < 2 THEN [result |-> "NeedData"]
    ELSE IF buf[2] \notin ResponseCodes THEN [result |-> "UnpackError"]
    ELSE [result |-> "ok", response |-> RTSPResponse(buf[2]),
          data |-> SubSeq(buf, 3, Len(buf))]

(***************************************************************************)
(* RTSPSession (src/rtsp_decoder/rtsp_session.py)                          *)
(***************************************************************************)
RTSP_PORTS == {554, 8554, 7236}
MIN_RTP_SIZE == 12
MAX_RTP_SIZE == 8192
INTERLEAVED_HEADER_LEN == 4
INTERLEAVED_HEADER_MAGIC == 36

\* RTSPSessionState
PROCESSING_RTSP == 0
RTSP_READY == 1
PROCESSING_RTP == 2
DONE == 3
INVALID == 4

\* RTSPSession.__init__
RTSPSession ==
    [ server_ip |-> None,
      client_ip |-> None,
      sdp |-> None,
      transport_headers |-> <<>>,
      control_channels |-> <<>>,
      data_channels |-> <<>>,
      reassembler |-> Reassembler(TcpSeqBits, SessionMaxOutOfOrder, "data"),
      state |-> PROCESSING_RTSP,
      buffer |-> <<>> ]

\* get_sdp_medias
get_sdp_medias(sdp) == sdp.media

\* "self.sdp is not None and len(get_sdp_medias(self.sdp)) == len(self.transport_headers)"
AllTransportHeaders(s) ==
    /\ s.sdp # None
    /\ Len(get_sdp_medias(s.sdp[1])) = Len(s.transport_headers)

\* RTSPSession._parse_rtsp_response
ParseRtspResponse(s) ==
    LET p == ParseResponse(s.buffer)
    IN  IF p.result = "NeedData" THEN s
        ELSE IF p.result = "UnpackError" THEN [s EXCEPT !.buffer = <<>>]
        ELSE LET s1 == [s EXCEPT !.buffer = p.data]
             IN  IF p.response.sdp # None /\ p.response.status = 200
                 THEN [s1 EXCEPT !.sdp = p.response.sdp]
                 ELSE IF p.response.transport # None /\ p.response.status = 200
                 THEN LET s2 == [s1 EXCEPT !.transport_headers =
                                               Append(@, p.response.transport[1])]
                      IN  IF AllTransportHeaders(s2) THEN [s2 EXCEPT !.state = DONE]
                          ELSE s2
                 ELSE s1

\* a mutant of ProcessOutPackets: a chunk behind a gap is appended to the bytes
\* from before the gap
RECURSIVE ProcessOutPackets_KeepBuffer(_)
ProcessOutPackets_KeepBuffer(s) ==
    IF s.state # PROCESSING_RTSP THEN s
    ELSE IF s.reassembler.output_queue = <<>> THEN s
    ELSE LET out_packet == Head(s.reassembler.output_queue)[1]
             skipped == Head(s.reassembler.output_queue)[2]
             s1 == [s EXCEPT !.reassembler.output_queue = Tail(@)]
         IN  IF out_packet = None THEN [s1 EXCEPT !.state = DONE]
             ELSE IF skipped /\ AllTransportHeaders(s1) THEN [s1 EXCEPT !.state = DONE]
             ELSE ProcessOutPackets_KeepBuffer(
                     ParseRtspResponse([s1 EXCEPT !.buffer = @ \o out_packet[1]]))

\* RTSPSession._process_out_packets
RECURSIVE ProcessOutPackets(_)
ProcessOutPackets(s) ==
    IF s.state # PROCESSING_RTSP THEN s
    ELSE IF s.reassembler.output_queue = <<>> THEN s
    ELSE LET out_packet == Head(s.reassembler.output_queue)[1]
             skipped == Head(s.reassembler.output_queue)[2]
             s1 == [s EXCEPT !.reassembler.output_queue = Tail(@)]
         IN  IF out_packet = None THEN [s1 EXCEPT !.state = DONE]
             ELSE IF skipped /\ AllTransportHeaders(s1) THEN [s1 EXCEPT !.state = DONE]
             ELSE LET s2 == IF skipped THEN [s1 EXCEPT !.buffer = <<>>] ELSE s1
                  IN  ProcessOutPackets(
                         ParseRtspResponse([s2 EXCEPT !.buffer = @ \o out_packet[1]]))

\* the end of the flow: "self._reassembler.process(None)", which raises
\* ValueError when the reassembler is done, then the drain, then DONE
EndOfFlow(s) ==
    IF s.reassembler.done THEN [session |-> s, raised |-> TRUE]
    ELSE [session |-> [ProcessOutPackets(
                          [s EXCEPT !.reassembler = Process(@, None, -1)])
                       EXCEPT !.state = DONE],
          raised |-> FALSE]

\* RTSPSession.process_packet(ip_layer): the session it leaves and whether
\* it raised; ip_layer is None or Some(ip packet)
SessionProcessPacket(s, ip_layer) ==
    IF ip_layer = None THEN EndOfFlow(s)
    ELSE LET ip == ip_layer[1] IN
    IF ip.proto # "TCP" THEN [session |-> s, raised |-> FALSE]
    ELSE IF ip.sport \notin RTSP_PORTS THEN [session |-> s, raised |-> FALSE]
    ELSE LET s1 == IF s.client_ip = None /\ s.server_ip = None
                   THEN [s EXCEPT !.server_ip = Some(ip.src), !.client_ip = Some(ip.dst)]
                   ELSE s
         IN  IF ip.fin THEN EndOfFlow(s1)
             ELSE IF ip.data = <<>> \/ (ip.urg /\ ip.urp = 0)
             THEN [session |-> s1, raised |-> FALSE]
             ELSE LET end == IF ip.urg THEN ip.urp ELSE Len(ip.data)
                      payload == SubSeq(ip.data, 1, end)
                  IN  IF s1.reassembler.done THEN [session |-> s1, raised |-> TRUE]
                      ELSE [session |-> ProcessOutPackets(
                                [s1 EXCEPT !.reassembler = Process(@, Some(payload), ip.seq)]),
                            raised |-> FALSE]

\* Python's seq[a:], seq[a:b] and bytes.find (0-based, -1 when absent)
From(seq, a) == SubSeq(seq, a + 1, Len(seq))
Slice(seq, a, b) == SubSeq(seq, a + 1, b)
Find(seq, b) ==
    IF \E i \in 1 .. Len(seq) : seq[i] = b
    THEN Min({i \in 1 .. Len(seq) : seq[i] = b}) - 1
    ELSE -1
InList(x, list) == \E i \in 1 .. Len(list) : list[i] = x
Zeros(n) == [i \in 1 .. n |-> 0]

\* a mutant of ParseInterleavedHeader: the length is read little-endian
ParseInterleavedHeader_LittleEndian(header) ==
    [magic |-> header[1], channel |-> header[2],
     length |-> header[4] * 256 + header[3]]

\* RTSPSession._parse_interleaved_header, for a header of at least 4 bytes
ParseInterleavedHeader(header) ==
    [magic |-> header[1], channel |-> header[2],
     length |-> header[3] * 256 + header[4]]

\* a mutant of ValidInterleavedHeader: the channel of the frame is not checked
ValidInterleavedHeader_AnyChannel(s, h) ==
    ~ ( \/ h.magic # INTERLEAVED_HEADER_MAGIC
        \/ h.length < MIN_RTP_SIZE
        \/ h.length > MAX_RTP_SIZE )

\* RTSPSession._valid_interleaved_header
ValidInterleavedHeader(s, h) ==
    ~ ( \/ h.magic # INTERLEAVED_HEADER_MAGIC
        \/ (~InList(h.channel, s.control_channels) /\ ~InList(h.channel, s.data_channels))
        \/ h.length < MIN_RTP_SIZE
        \/ h.length > MAX_RTP_SIZE )

\* a mutant of EmitsRtp: the payload of every valid frame is yielded
EmitsRtp_AnyChannel(s, channel) ==
    InList(channel, s.data_channels) \/ InList(channel, s.control_channels)

\* "if channel in self.data_channels"
EmitsRtp(s, channel) == InList(channel, s.data_channels)

\* RTPPacket.from_dpkt(RTP(data)): the fields of the 12-byte RTP header and
\* the payload after it and after the contributing sources
RTPPacketFromDpkt(data) ==
    [ marker |-> data[2] \div 128 = 1,
      payload_type |-> data[2] % 128,
      seq |-> data[3] * 256 + data[4],
      timestamp |-> ((data[5] * 256 + data[6]) * 256 + data[7]) * 256 + data[8],
      ssrc |-> ((data[9] * 256 + data[10]) * 256 + data[11]) * 256 + data[12],
      payload |-> From(data, MIN_RTP_SIZE + (data[1] % 16) * 4) ]

\* the buffer after "if not self._valid_interleaved_header(...)": cut to the
\* next magic byte behind its first byte, or emptied
Resync(buffer) ==
    LET next_magic_index == Find(From(buffer, 1), INTERLEAVED_HEADER_MAGIC)
    IN  IF next_magic_index < 0 THEN <<>> ELSE From(buffer, next_magic_index + 1)

\* the loop "while True" of get_rtp: frames are cut from the head of the buffer
\* for as long as it holds a complete one; g is [session, yielded, raised]
RECURSIVE FrameLoop(_)
FrameLoop(g) ==
    LET s == g.session IN
    IF Len(s.buffer) < INTERLEAVED_HEADER_LEN THEN g
    ELSE LET h == ParseInterleavedHeader(s.buffer) IN
         IF ~ValidInterleavedHeader(s, h)
         THEN IF Find(From(s.buffer, 1), INTERLEAVED_HEADER_MAGIC) < 0
              THEN [g EXCEPT !.session.buffer = Resync(@)]
              ELSE FrameLoop([g EXCEPT !.session.buffer = Resync(@)])
         ELSE IF Len(From(s.buffer, INTERLEAVED_HEADER_LEN)) < h.length THEN g
         ELSE FrameLoop(
                [g EXCEPT
                   !.yielded = IF EmitsRtp(s, h.channel)
                               THEN Append(@, RTPPacketFromDpkt(
                                                  Slice(s.buffer, INTERLEAVED_HEADER_LEN,
                                                        INTERLEAVED_HEADER_LEN + h.length)))
                               ELSE @,
                   !.session.buffer = From(@, INTERLEAVED_HEADER_LEN + h.length)])

\* the body of "if skipped" of get_rtp, for a buffer of at least 4 bytes
AfterGap(s, out_packet) ==
    LET h == ParseInterleavedHeader(s.buffer)
        payload == From(s.buffer, INTERLEAVED_HEADER_LEN)
        s1 == IF ValidInterleavedHeader(s, h)
              THEN [s EXCEPT !.buffer =
                       @ \o (IF h.length > Len(payload)
                             THEN Zeros(h.length - Len(payload)) ELSE <<>>)]
              ELSE [s EXCEPT !.buffer = <<>>]
    IN  IF Find(out_packet, INTERLEAVED_HEADER_MAGIC) >= 0
        THEN [s1 EXCEPT !.buffer =
                 @ \o From(out_packet, Find(out_packet, INTERLEAVED_HEADER_MAGIC))]
        ELSE s1

\* a mutant of OutputLoop: a chunk that is not flagged replaces the accumulator
RECURSIVE OutputLoop_NoCarry(_)
OutputLoop_NoCarry(g) ==
    LET s == g.session IN
    IF s.reassembler.output_queue = <<>> THEN g
    ELSE LET out_packet == Head(s.reassembler.output_queue)[1]
             g1 == [g EXCEPT !.session.reassembler.output_queue = Tail(@)]
         IN  IF out_packet = None \/ out_packet = Some(<<>>) THEN OutputLoop_NoCarry(g1)
             ELSE OutputLoop_NoCarry(FrameLoop([g1 EXCEPT !.session.buffer = out_packet[1]]))

\* the loop over self._reassembler.get_output_packets() of get_rtp
RECURSIVE OutputLoop(_)
OutputLoop(g) ==
    LET s == g.session IN
    IF s.reassembler.output_queue = <<>> THEN g
    ELSE LET out_packet == Head(s.reassembler.output_queue)[1]
             skipped == Head(s.reassembler.output_queue)[2]
             g1 == [g EXCEPT !.session.reassembler.output_queue = Tail(@)]
         IN  IF out_packet = None \/ out_packet = Some(<<>>) THEN OutputLoop(g1)
             ELSE IF skipped
             THEN IF Len(s.buffer) < INTERLEAVED_HEADER_LEN
                  THEN [g1 EXCEPT !.raised = TRUE]
                  ELSE LET s2 == AfterGap(g1.session, out_packet[1])
                       IN  IF s2.buffer = <<>> THEN OutputLoop([g1 EXCEPT !.session = s2])
                           ELSE LET g2 == FrameLoop([g1 EXCEPT !.session = s2])
                                IN  OutputLoop(g2)
             ELSE OutputLoop(FrameLoop([g1 EXCEPT !.session.buffer = @ \o out_packet[1]]))

\* a mutant of GetRtp: the switch to PROCESSING_RTP is forgotten
GetRtp_KeepState(s) ==
    LET s0 == IF s.state # PROCESSING_RTP THEN [s EXCEPT !.buffer = <<>>] ELSE s
    IN  OutputLoop([session |-> s0, yielded |-> <<>>, raised |-> FALSE])

\* RTSPSession.get_rtp, run to its end: the session it leaves, the RTP packets
\* it yields (as the bytes handed to the RTP parser) and whether it raised
GetRtp(s) ==
    LET s0 == IF s.state # PROCESSING_RTP
              THEN [s EXCEPT !.buffer = <<>>, !.state = PROCESSING_RTP]
              ELSE s
    IN  OutputLoop([session |-> s0, yielded |-> <<>>, raised |-> FALSE])

(***************************************************************************)
(* RTSPDataExtractor (src/rtsp_decoder/rtsp.py)                            *)
(***************************************************************************)
\* FiveTuple; addresses are numbers
FiveTuple(src_ip, dst_ip, src_port, dst_port, proto) ==
    [src_ip |-> src_ip, dst_ip |-> dst_ip, src_port |-> src_port,
     dst_port |-> dst_port, proto |-> proto]

\* str(n) of a natural number, as its character codes
RECURSIVE Digits(_)
Digits(n) == IF n < 10 THEN <<48 + n>> ELSE Digits(n \div 10) \o <<48 + (n % 10)>>

\* f"{ip}:{port}"; an address of the model is a number and is written in decimal
PeerStr(ip, port) == Digits(ip) \o <<58>> \o Digits(port)

\* a <= b of two strings: the order by which sorted() arranges the peers
RECURSIVE StrLE(_, _)
StrLE(a, b) ==
    IF a = <<>> THEN TRUE
    ELSE IF b = <<>> THEN FALSE
    ELSE IF a[1] # b[1] THEN a[1] < b[1]
    ELSE StrLE(Tail(a), Tail(b))

\* mutant of FlowKey: the peers are joined in the order of the packet
FlowKey_Directed(ft) ==
    <<PeerStr(ft.src_ip, ft.src_port) \o <<44>> \o PeerStr(ft.dst_ip, ft.dst_port),
      ft.proto>>

\* FiveTuple.__hash__, by which __eq__ and the dictionaries compare five tuples:
\* the tuple (hash_str, proto) that is hashed
FlowKey(ft) ==
    LET peer1 == PeerStr(ft.src_ip, ft.src_port)
        peer2 == PeerStr(ft.dst_ip, ft.dst_port)
        hash_str == IF StrLE(peer1, peer2) THEN peer1 \o <<44>> \o peer2
                    ELSE peer2 \o <<44>> \o peer1
    IN  <<hash_str, ft.proto>>

\* FiveTuple.from_dpkt
FiveTupleOf(ip) == FiveTuple(ip.src, ip.dst, ip.sport, ip.dport, ip.proto)

CREATE_DECODER == 0
PROCESS_RTP_PACKET == 1

\* RTSPDataExtractor.__init__ and the locals of process_next; the sessions are
\* kept in rtsp_sessions and the other tables refer to them by their key;
\* tasks are the tasks yielded so far, raised the exception that ended the run
RTSPDataExtractor ==
    [ current_ident |-> 0,
      rtp_id_to_ident |-> EmptyMap,
      rtp_over_tcp_sessions |-> EmptyMap,
      rtp_over_udp_sessions |-> EmptyMap,
      rtsp_sessions |-> EmptyMap,
      session_order |-> <<>>,
      invalid_five_tuples |-> <<>>,
      tasks |-> <<>>,
      raised |-> None ]

\* RTSPDataExtractor._parse_rtp_optional_range; "N-M" is <<N, M>>, "N" is <<N>>
ParseRtpOptionalRange(optional_range) == optional_range[1]

\* the body of "try" in _handle_rtsp_session for one transport header; a
\* missing option raises KeyError, which is caught and logged
ResolveTransportHeader(e, five_tuple, transport_header) ==
    LET key == FlowKey(five_tuple)
        rtsp_session == e.rtsp_sessions[key]
        options == transport_header.options
    IN  IF transport_header.protocol = "rtp/avp/tcp"
        THEN IF "interleaved" \notin DOMAIN options THEN e
             ELSE LET channel == ParseRtpOptionalRange(options.interleaved)
                  IN  IF key \notin DOMAIN e.rtp_over_tcp_sessions
                      THEN [e EXCEPT !.rtp_over_tcp_sessions =
                               MapPut(@, key, [session |-> key, channels |-> <<channel>>])]
                      ELSE [e EXCEPT !.rtp_over_tcp_sessions[key].channels =
                               Append(@, channel)]
        ELSE IF transport_header.protocol \in {"rtp/avp", "rtp/avp/udp"}
        THEN IF ~({"client_port", "server_port"} \subseteq DOMAIN options) THEN e
             ELSE LET client_port == ParseRtpOptionalRange(options.client_port)
                      server_port == ParseRtpOptionalRange(options.server_port)
                      rtp_five_tuple == FiveTuple(rtsp_session.server_ip[1],
                                                  rtsp_session.client_ip[1],
                                                  server_port, client_port, "UDP")
                  IN  [e EXCEPT !.rtp_over_udp_sessions =
                          MapPut(@, FlowKey(rtp_five_tuple), key)]
        ELSE e

\* list.pop(index) for an index within the list
ListPop(list, index) ==
    SubSeq(list, 1, index) \o SubSeq(list, index + 2, Len(list))

\* the index that "finally" pops from rtsp_session.transport_headers
PopIndex(th_index) == th_index

\* the loop of _handle_rtsp_session over a copy of the transport headers;
\* th_index counts from 0; the pop raises IndexError past the end of the list
RECURSIVE ResolveLoop(_, _, _, _)
ResolveLoop(e, five_tuple, headers, th_index) ==
    IF th_index >= Len(headers) THEN e
    ELSE LET key == FlowKey(five_tuple)
             e1 == ResolveTransportHeader(e, five_tuple, headers[th_index + 1])
             live == e1.rtsp_sessions[key].transport_headers
         IN  IF PopIndex(th_index) >= Len(live)
             THEN [e1 EXCEPT !.raised = Some("IndexError")]
             ELSE ResolveLoop(
                     [e1 EXCEPT !.rtsp_sessions[key].transport_headers =
                                    ListPop(live, PopIndex(th_index))],
                     five_tuple, headers, th_index + 1)

\* RTSPDataExtractor._handle_rtsp_session
HandleRtspSession(e, five_tuple) ==
    LET rtsp_session == e.rtsp_sessions[FlowKey(five_tuple)]
    IN  IF rtsp_session.sdp = None THEN e
        ELSE IF Len(rtsp_session.transport_headers) < Len(get_sdp_medias(rtsp_session.sdp[1]))
        THEN e
        ELSE ResolveLoop(e, five_tuple, rtsp_session.transport_headers, 0)

\* get_payload_type_from_sdp_media
get_payload_type_from_sdp_media(sdp_media) == sdp_media.payloads

\* RTSPDataExtractor._get_sdp_media_for_rtp_stream: the first media of the
\* payload type, or None
GetSdpMediaForRtpStream(sdp, payload_type) ==
    LET medias == get_sdp_medias(sdp)
        hits == {i \in 1 .. Len(medias) :
                    get_payload_type_from_sdp_media(medias[i]) = payload_type}
    IN  IF hits = {} THEN None ELSE Some(medias[Min(hits)])

\* Task with CreateDecoderTaskBody(ident, sdp_media) or with
\* ProcessRTPPacketTaskBody(ident, rtp_packet); rtpid is the identity of the
\* RTP packet the task was yielded for
CreateTask(ident, sdp_media, rtpid) ==
    [ttype |-> CREATE_DECODER, ident |-> ident, sdp_media |-> sdp_media, rtpid |-> rtpid]
ProcessTask(ident, rtpid) ==
    [ttype |-> PROCESS_RTP_PACKET, ident |-> ident, rtpid |-> rtpid]

\* a mutant of AfterGetNextIdent: the counter is not advanced
AfterGetNextIdent_Same(current_ident) == current_ident

\* self._current_ident after _get_next_ident has returned its old value
AfterGetNextIdent(current_ident) == current_ident + 1

\* a mutant of SecondPassPacket: a packet of a flow that no transport header
\* announced is handled with the first RTSP session
SecondPassPacket_AnyFlow(e, ip, rtp_packet) ==
    LET five_tuple == FiveTupleOf(ip)
        key == FlowKey(five_tuple)
    IN  IF InList(key, e.invalid_five_tuples) THEN e
        ELSE IF key \notin DOMAIN e.rtp_over_udp_sessions
        THEN IF e.session_order = <<>> \/ e.rtsp_sessions[FlowKey(e.session_order[1])].sdp = None
             THEN e
             ELSE [e EXCEPT !.tasks =
                     Append(@, ProcessTask(0, <<key, rtp_packet.ssrc,
                                                rtp_packet.payload_type>>))]
        ELSE e

\* a mutant of HandleRtpPacket: the new identity is not entered in the table
HandleRtpPacket_NotStored(e, session_key, five_tuple, rtp_packet) ==
    LET rtpid == <<FlowKey(five_tuple), rtp_packet.ssrc, rtp_packet.payload_type>>
    IN  IF rtpid \in DOMAIN e.rtp_id_to_ident
        THEN [e EXCEPT !.tasks =
                 Append(@, ProcessTask(e.rtp_id_to_ident[rtpid], rtpid))]
        ELSE LET sdp_media == GetSdpMediaForRtpStream(
                                  e.rtsp_sessions[session_key].sdp[1], rtp_packet.payload_type)
             IN  IF sdp_media = None
                 THEN [e EXCEPT !.raised = Some("NameError")]
                 ELSE [e EXCEPT
                         !.current_ident = AfterGetNextIdent(@),
                         !.tasks = @ \o <<CreateTask(e.current_ident, sdp_media[1], rtpid),
                                          ProcessTask(e.current_ident, rtpid)>>]

\* a mutant of HandleRtpPacket: the packet of a new identity creates the decoder
\* and is not passed on
HandleRtpPacket_CreateOnly(e, session_key, five_tuple, rtp_packet) ==
    LET rtpid == <<FlowKey(five_tuple), rtp_packet.ssrc, rtp_packet.payload_type>>
    IN  IF rtpid \in DOMAIN e.rtp_id_to_ident
        THEN [e EXCEPT !.tasks =
                 Append(@, ProcessTask(e.rtp_id_to_ident[rtpid], rtpid))]
        ELSE LET sdp_media == GetSdpMediaForRtpStream(
                                  e.rtsp_sessions[session_key].sdp[1], rtp_packet.payload_type)
             IN  IF sdp_media = None
                 THEN [e EXCEPT !.raised = Some("NameError")]
                 ELSE [e EXCEPT
                         !.current_ident = AfterGetNextIdent(@),
                         !.rtp_id_to_ident = MapPut(@, rtpid, e.current_ident),
                         !.tasks = @ \o <<CreateTask(e.current_ident, sdp_media[1], rtpid)>>]

\* RTSPDataExtractor._handle_rtp_packet with _get_next_ident.  On an
\* association failure the handler reads invalid_five_tuples, a local of
\* process_next that is no name of its own scope: NameError, which leaves
\* process_next
HandleRtpPacket(e, session_key, five_tuple, rtp_packet) ==
    LET rtpid == <<FlowKey(five_tuple), rtp_packet.ssrc, rtp_packet.payload_type>>
    IN  IF rtpid \in DOMAIN e.rtp_id_to_ident
        THEN [e EXCEPT !.tasks =
                 Append(@, ProcessTask(e.rtp_id_to_ident[rtpid], rtpid))]
        ELSE LET sdp_media == GetSdpMediaForRtpStream(
                                  e.rtsp_sessions[session_key].sdp[1], rtp_packet.payload_type)
             IN  IF sdp_media = None
                 THEN [e EXCEPT !.raised = Some("NameError")]
                 ELSE [e EXCEPT
                         !.current_ident = AfterGetNextIdent(@),
                         !.rtp_id_to_ident = MapPut(@, rtpid, e.current_ident),
                         !.tasks = @ \o <<CreateTask(e.current_ident, sdp_media[1], rtpid),
                                          ProcessTask(e.current_ident, rtpid)>>]

\* RTSPDataExtractor._process_rtp_over_tcp: get_rtp yields RTPPacket values,
\* which the loop unpacks into (channel, rtp_packet): the first packet
\* yielded raises ValueError
ProcessRtpOverTcp(e, five_tuple) ==
    LET key == FlowKey(five_tuple)
        g == GetRtp(e.rtsp_sessions[key])
        e1 == [e EXCEPT !.rtsp_sessions[key] = g.session]
    IN  IF g.yielded # <<>> THEN [e1 EXCEPT !.raised = Some("ValueError")]
        ELSE IF g.raised THEN [e1 EXCEPT !.raised = Some("AssertionError")]
        ELSE e1

\* the body of the first loop of process_next for a TCP segment whose source
\* port is an RTSP port
FirstPassSegment(e, ip) ==
    LET five_tuple == FiveTupleOf(ip)
        key == FlowKey(five_tuple)
    IN  IF key \in DOMAIN e.rtp_over_tcp_sessions THEN ProcessRtpOverTcp(e, five_tuple)
        ELSE LET e1 == IF key \in DOMAIN e.rtsp_sessions THEN e
                       ELSE [e EXCEPT !.rtsp_sessions = MapPut(@, key, RTSPSession),
                                      !.session_order = Append(@, five_tuple)]
                 r == SessionProcessPacket(e1.rtsp_sessions[key], Some(ip))
                 e2 == [e1 EXCEPT !.rtsp_sessions[key] = r.session]
             IN  IF r.raised THEN [e2 EXCEPT !.raised = Some("ValueError")]
                 ELSE IF r.session.state = DONE THEN HandleRtspSession(e2, five_tuple)
                 ELSE e2

\* the loop "for five_tuple, rtsp_session in rtsp_sessions.items()" that
\* follows the first pass, from the i-th session on
RECURSIVE FinishSessions(_, _)
FinishSessions(e, i) ==
    IF i > Len(e.session_order) \/ e.raised # None THEN e
    ELSE LET five_tuple == e.session_order[i]
             key == FlowKey(five_tuple)
             r == SessionProcessPacket(e.rtsp_sessions[key], None)
             e1 == [e EXCEPT !.rtsp_sessions[key] = r.session]
         IN  IF r.raised THEN [e1 EXCEPT !.raised = Some("ValueError")]
             ELSE LET e2 == HandleRtspSession(e1, five_tuple)
                  IN  IF e2.raised # None THEN e2
                      ELSE IF key \in DOMAIN e2.rtp_over_tcp_sessions
                      THEN FinishSessions(ProcessRtpOverTcp(e2, five_tuple), i + 1)
                      ELSE FinishSessions(e2, i + 1)

\* the body of the second loop of process_next for a UDP packet that holds
\* the RTP packet rtp_packet
SecondPassPacket(e, ip, rtp_packet) ==
    LET five_tuple == FiveTupleOf(ip)
        key == FlowKey(five_tuple)
    IN  IF InList(key, e.invalid_five_tuples) THEN e
        ELSE IF key \notin DOMAIN e.rtp_over_udp_sessions THEN e
        ELSE HandleRtpPacket(e, e.rtp_over_udp_sessions[key], five_tuple, rtp_packet)

(***************************************************************************)
(* RTSPDecoder.run (src/rtsp_decoder/rtsp_decoder.py) and the RTPDecoder   *)
(* objects it keeps (src/rtspcap/rtp.py)                                   *)
(***************************************************************************)
\* the keys of RTPCodec._CODEC_MAP
CODEC_MAP == {"h264", "h265", "mp4v-es", "mpeg4-generic", "pcma", "pcmu"}

\* str.casefold on the codec names of the model
Casefold(codec_name) ==
    CASE codec_name = "H264" -> "h264"
      [] codec_name = "VP9" -> "vp9"
      [] OTHER -> codec_name

\* get_codec_name_from_sdp_media
get_codec_name_from_sdp_media(sdp_media) == sdp_media.rtp[1].codec

\* a mutant of CodecImplemented: every codec name is taken
CodecImplemented_Any(codec_name) == TRUE

\* RTPCodec.__init__: "codec_name not in self._CODEC_MAP" raises ValueError
CodecImplemented(codec_name) == Casefold(codec_name) \in CODEC_MAP

\* os.path.join(self.output_dir, f"{self.output_prefix}{ident}.{self.output_format}")
OutputPath(ident) == <<"output_dir", "stream", ident, "mp4">>

\* RTPDecoder.__init__: the decoder slot of an output path; packets counts
\* the process_rtp_packet calls, the flags record what close has reached
RTPDecoder(output_path, sdp_media) ==
    [ output_path |-> output_path,
      codec_name |-> Casefold(get_codec_name_from_sdp_media(sdp_media)),
      packets |-> 0,
      close_called |-> FALSE,
      flush_attempted |-> FALSE,
      container_closed |-> FALSE ]

\* the run of RTSPDecoder.run: its dictionary and the exception that left it
Run(decoders, error) == [rtp_decoders |-> decoders, run_error |-> error]

\* the body of the loop of RTSPDecoder.run for one task; opens tells whether
\* the libraries let RTPDecoder be constructed, processes whether
\* process_rtp_packet returns without an exception
RunTask(run, task, opens, processes) ==
    IF task.ttype = CREATE_DECODER
    THEN IF CodecImplemented(get_codec_name_from_sdp_media(task.sdp_media)) /\ opens
         THEN [run EXCEPT !.rtp_decoders =
                  MapPut(@, task.ident, RTPDecoder(OutputPath(task.ident), task.sdp_media))]
         ELSE run
    ELSE IF task.ident \notin DOMAIN run.rtp_decoders THEN run
    ELSE LET counted == [run EXCEPT !.rtp_decoders[task.ident].packets = @ + 1]
         IN  IF processes THEN counted
             ELSE [counted EXCEPT !.run_error = Some("process_rtp_packet")]

\* the loop of RTSPDecoder.run over the tasks that process_next yields
RECURSIVE RunTasks(_, _, _, _)
RunTasks(run, tasks, opens, processes) ==
    IF tasks = <<>> \/ run.run_error # None THEN run
    ELSE RunTasks(RunTask(run, Head(tasks), opens, processes), Tail(tasks),
                  opens, processes)

\* where RTPDecoder.close is left: at its end, or by an exception of the
\* drain (lines 56-69), of the encoder flush, or of the container close
ClosePaths == {"returns", "drain", "flush", "container"}

\* RTPDecoder.close left on the given path
RTPDecoderClose(rtp_decoder, path) ==
    [rtp_decoder EXCEPT
        !.close_called = TRUE,
        !.flush_attempted = path # "drain",
        !.container_closed = path \in {"returns", "container"}]

\* the decoders that CloseAllDictValues has still to close, and the next of
\* them: dictionary order is the order of creation, which is the order of ids
Unclosed(decoders) == {ident \in DOMAIN decoders : ~decoders[ident].close_called}

(***************************************************************************)
(* The Reassembler on its own, in packet mode, fed by any caller           *)
(***************************************************************************)
SeqNumbers == 0 .. (Pow2(SeqBits) - 1)

\* the RTP packet passed by the n-th process call
Packet(n, seq) == [id |-> n, seq |-> seq]

\* the objects a specification does not use stay as constructed
IdleReassembler ==
    /\ reasm = Reassembler(SeqBits, MaxOutOfOrder, "packet")
    /\ fed = <<>>
    /\ r_last = "init"
IdleSession ==
    /\ sess = RTSPSession
    /\ s_last = "init"
    /\ s_calls = 0
    /\ s_ended = FALSE
    /\ s_complete = FALSE
    /\ s_raised = FALSE
IdleFramer ==
    /\ wire = <<>>
    /\ frames = [junk |-> <<>>, list |-> <<>>]
    /\ yielded = <<>>
IdleExtractor ==
    /\ extractor = RTSPDataExtractor
    /\ pass = "first"
    /\ n_rtsp = 0
    /\ n_other = 0
    /\ rtp_decoders = EmptyMap
    /\ run_error = None
IdleFunction ==
    /\ arg = None
    /\ result = None
IdleDecoder ==
    /\ slot = None
    /\ rtp_stream = None
IdleCodec ==
    /\ payload_ctx = None
    /\ rtp_in = <<>>
    /\ av_out = <<>>

\* the windows K of the Reassembler objects of the model
HoldLimits == {MaxOutOfOrder, MaxOutOfOrder + 1}

InitReassembler ==
    /\ \E max_out_of_order \in HoldLimits :
          reasm = Reassembler(SeqBits, max_out_of_order, "packet")
    /\ fed = <<>>
    /\ r_last = "init"
    /\ IdleSession
    /\ IdleFramer
    /\ IdleExtractor
    /\ IdleDecoder
    /\ IdleCodec
    /\ IdleFunction

\* reassembler.process(packet, seq)
ProcessPacket ==
    /\ ~reasm.done
    /\ Len(fed) < MaxFed
    /\ \E seq \in SeqNumbers :
          LET p == Packet(Len(fed) + 1, seq)
          IN  /\ reasm' = Process(reasm, Some(p), seq)
              /\ fed' = Append(fed, <<Some(p), seq>>)
    /\ r_last' = "process"
    /\ UNCHANGED <<dvars, cvars, svars, fvars, evars, pvars>>

\* reassembler.process(None)
ProcessEnd ==
    /\ ~reasm.done
    /\ reasm' = Process(reasm, None, -1)
    /\ fed' = Append(fed, <<None, -1>>)
    /\ r_last' = "end"
    /\ UNCHANGED <<dvars, cvars, svars, fvars, evars, pvars>>

\* reassembler.process(...) of a reassembler that is done, with a packet or None
ProcessWhenDone ==
    /\ reasm.done
    /\ r_last # "raised"
    /\ \E seq \in SeqNumbers, with_packet \in BOOLEAN :
          LET packet == IF with_packet THEN Some(Packet(Len(fed) + 1, seq)) ELSE None
              call == ProcessCall(reasm, packet, seq)
          IN  /\ reasm' = call.reassembler
              /\ r_last' = IF call.raised THEN "raised" ELSE "process"
    /\ UNCHANGED <<dvars, cvars, fed, svars, fvars, evars, pvars>>

NextReassembler == ProcessPacket \/ ProcessEnd \/ ProcessWhenDone

SpecReassembler == InitReassembler /\ [][NextReassembler]_vars

(***************************************************************************)
(* One RTSPSession, given any TCP segments in any order by its caller      *)
(***************************************************************************)
\* the sequence numbers of the segments: a stream that starts at 0, with
\* segments that arrive in order, ahead of a gap, or late
SessionSeqs == {0, 1, 2, 4, 6}

\* an IP packet that carries a TCP segment
TcpSegment(src, dst, sport, dport, seq, data, fin, urg, urp) ==
    [src |-> src, dst |-> dst, proto |-> "TCP", sport |-> sport, dport |-> dport,
     seq |-> seq, data |-> data, fin |-> fin, urg |-> urg, urp |-> urp]

\* a segment the server (address 1, port 554) sends to the client (address 2)
\* on the RTSP connection
FromServer(seq, data, fin, urg, urp) ==
    TcpSegment(1, 2, 554, 40000, seq, data, fin, urg, urp)

\* the payloads of the segments: whole responses, two responses in one segment,
\* the two halves of a response
SessionPayloads ==
    { <<STATUS_LINE, 1>>, <<STATUS_LINE, 2>>, <<STATUS_LINE, 3>>,
      <<STATUS_LINE, 1, STATUS_LINE, 3>>, <<STATUS_LINE>>, <<3>> }

InitSession ==
    /\ IdleSession
    /\ IdleReassembler
    /\ IdleFramer
    /\ IdleExtractor
    /\ IdleDecoder
    /\ IdleCodec
    /\ IdleFunction

\* the bookkeeping of a process_packet call that left the session as r
AfterProcessPacket(r, name, ended) ==
    /\ sess' = r.session
    /\ s_raised' = r.raised
    /\ s_last' = name
    /\ s_calls' = s_calls + 1
    /\ s_ended' = (s_ended \/ ended)
    /\ s_complete' = (s_complete \/ AllTransportHeaders(r.session))
    /\ UNCHANGED <<dvars, cvars, rvars, fvars, evars, pvars>>

\* session.process_packet(ip_layer) with a data segment of the server
SessionData ==
    /\ s_calls < MaxSegments
    /\ \E seq \in SessionSeqs, data \in SessionPayloads :
          AfterProcessPacket(
              SessionProcessPacket(sess, Some(FromServer(seq, data, FALSE, FALSE, 0))),
              "data", FALSE)

\* session.process_packet(ip_layer) with an urgent segment
SessionUrgent ==
    /\ s_calls < MaxSegments
    /\ \E urp \in {0, 2} :
          AfterProcessPacket(
              SessionProcessPacket(sess,
                  Some(FromServer(0, <<STATUS_LINE, 1, STATUS_LINE, 3>>, FALSE, TRUE, urp))),
              "data", FALSE)

\* session.process_packet(ip_layer) with a segment that has the FIN flag
SessionFin ==
    /\ s_calls < MaxSegments
    /\ AfterProcessPacket(
          SessionProcessPacket(sess, Some(FromServer(0, <<>>, TRUE, FALSE, 0))),
          "fin", TRUE)

\* session.process_packet(ip_layer) with a segment of the client, or an empty one
SessionIgnored ==
    /\ s_calls < MaxSegments
    /\ \E ip \in { TcpSegment(2, 1, 40000, 554, 0, <<STATUS_LINE, 3>>,
                              FALSE, FALSE, 0),
                   FromServer(0, <<>>, FALSE, FALSE, 0) } :
          AfterProcessPacket(SessionProcessPacket(sess, Some(ip)), "ignored", FALSE)

\* session.process_packet(None)
SessionNone ==
    /\ s_calls < MaxSegments
    /\ AfterProcessPacket(SessionProcessPacket(sess, None), "none", TRUE)

\* the caller runs session.get_rtp() to its end
SessionGetRtp ==
    /\ LET g == GetRtp(sess)
       IN  /\ sess' = g.session
           /\ s_raised' = g.raised
           /\ yielded' = yielded \o g.yielded
    /\ s_last' = "get_rtp"
    /\ s_complete' = (s_complete \/ AllTransportHeaders(sess'))
    /\ UNCHANGED <<dvars, cvars, rvars, s_calls, s_ended, wire, frames, evars, pvars>>

NextSession ==
    \/ SessionData
    \/ SessionUrgent
    \/ SessionFin
    \/ SessionIgnored
    \/ SessionNone
    \/ SessionGetRtp

SpecSession == InitSession /\ [][NextSession]_vars

(***************************************************************************)
(* One RTSPSession in interleaved mode: the server has answered DESCRIBE   *)
(* and SETUP (RTP/AVP/TCP), the caller has set the channel lists, and the  *)
(* interleaved stream arrives in order, cut into segments at any place     *)
(***************************************************************************)
\* two RTP packets as they are on the wire; the second holds magic bytes and
\* what looks like frame headers
RtpPackets ==
    { <<128, 96, 0, 1, 0, 0, 0, 1, 0, 0, 0, 7>>,
      <<128, 97, 0, 2, 36, 0, 0, 12, 36, 1, 0, 12, 9>> }

\* junk of n bytes without a magic byte
Junk(n) == [i \in 1 .. n |-> (i * 7) % INTERLEAVED_HEADER_MAGIC]

\* a frame on the wire: `$`, channel, 16-bit big-endian length, payload
EncodeFrame(channel, packet) ==
    <<INTERLEAVED_HEADER_MAGIC, channel, Len(packet) \div 256, Len(packet) % 256>>
        \o packet

RECURSIVE EncodeFrames(_)
EncodeFrames(list) ==
    IF list = <<>> THEN <<>>
    ELSE EncodeFrame(list[1].channel, list[1].packet) \o EncodeFrames(Tail(list))

\* the frame lists of up to n frames on the channels chans
RECURSIVE FrameLists(_, _)
FrameLists(n, chans) ==
    IF n = 0 THEN {<<>>}
    ELSE LET shorter == FrameLists(n - 1, chans)
         IN  shorter \cup
             { Append(l, [channel |-> c, packet |-> p]) :
                 l \in {x \in shorter : Len(x) = n - 1}, c \in chans, p \in RtpPackets }

\* the session after the DESCRIBE and SETUP responses, with the channel lists
\* that the SETUP response negotiated
InterleavedSession ==
    LET s1 == SessionProcessPacket(RTSPSession,
                  Some(FromServer(0, <<STATUS_LINE, 1>>, FALSE, FALSE, 0))).session
        s2 == SessionProcessPacket(s1,
                  Some(FromServer(2, <<STATUS_LINE, 5>>, FALSE, FALSE, 0))).session
        interleaved == s2.transport_headers[1].options.interleaved
    IN  [s2 EXCEPT !.data_channels = <<interleaved[1]>>,
                   !.control_channels = <<interleaved[2]>>]

\* the sizes of the segments
ChunkSizes == {1, 2, 3, 5, 16}

InitFramer ==
    /\ sess = InterleavedSession
    /\ s_last = "init"
    /\ s_calls = 0
    /\ s_ended = FALSE
    /\ s_complete = TRUE
    /\ s_raised = FALSE
    /\ \E n \in {0, 1, MaxJunk}, list \in FrameLists(MaxFrames, {0, 1}) :
          /\ list # <<>>
          /\ frames = [junk |-> Junk(n), list |-> list]
          /\ wire = Junk(n) \o EncodeFrames(list)
    /\ yielded = <<>>
    /\ IdleReassembler
    /\ IdleExtractor
    /\ IdleDecoder
    /\ IdleCodec
    /\ IdleFunction

\* the next segment of the interleaved stream arrives: session.process_packet
FramerSegment ==
    /\ wire # <<>>
    /\ sess.reassembler.output_queue = <<>>
    /\ \E n \in ChunkSizes \cup {Len(wire)} :
          /\ n <= Len(wire)
          /\ LET sent == Len(frames.junk \o EncodeFrames(frames.list)) - Len(wire)
                 seq == (4 + sent) % Pow2(TcpSeqBits)
                 r == SessionProcessPacket(sess,
                          Some(FromServer(seq, SubSeq(wire, 1, n), FALSE, FALSE, 0)))
             IN  /\ sess' = r.session
                 /\ s_raised' = r.raised
          /\ wire' = SubSeq(wire, n + 1, Len(wire))
    /\ s_last' = "data"
    /\ UNCHANGED <<dvars, cvars, rvars, s_calls, s_ended, s_complete, frames, yielded, evars, pvars>>

NextFramer == FramerSegment \/ SessionGetRtp

SpecFramer == InitFramer /\ [][NextFramer]_vars

(***************************************************************************)
(* The frame loop of get_rtp on its own: the accumulator holds any bytes   *)
(***************************************************************************)
\* the magic byte, the data channel (also a length byte), the control channel,
\* and the low byte of the smallest length (also a channel that is not valid)
FrameBytes == {INTERLEAVED_HEADER_MAGIC, 0, 1, MIN_RTP_SIZE}
Accumulators == UNION {[1 .. n -> FrameBytes] : n \in 0 .. MaxBuffer}
\* what follows them: nothing, or a frame of the data channel
FrameTails == {<<>>, EncodeFrame(0, <<64, 96, 0, 1, 0, 0, 0, 1, 0, 0, 0, 7>>)}

InitFrameLoop ==
    /\ \E buffer \in Accumulators, tail \in FrameTails : arg = Some(buffer \o tail)
    /\ result = None
    /\ IdleReassembler
    /\ IdleSession
    /\ IdleFramer
    /\ IdleExtractor
    /\ IdleDecoder
    /\ IdleCodec

\* the loop "while True" of get_rtp runs on the accumulator
RunFrameLoop ==
    /\ result = None
    /\ LET g == FrameLoop([session |-> [InterleavedSession EXCEPT !.buffer = arg[1]],
                           yielded |-> <<>>, raised |-> FALSE])
       IN  result' = Some([buffer |-> g.session.buffer, yielded |-> g.yielded])
    /\ UNCHANGED <<dvars, cvars, rvars, svars, fvars, evars, arg>>

NextFrameLoop == RunFrameLoop

SpecFrameLoop == InitFrameLoop /\ [][NextFrameLoop]_vars

(***************************************************************************)
(* get_rtp on one interleaved stream that reaches it in three chunks: the  *)
(* stream is cut at any two places, a cut at an end gives an empty chunk   *)
(***************************************************************************)
\* the streams: no junk or one junk byte, then up to MaxFrames frames
Streams ==
    { Junk(n) \o EncodeFrames(list) :
        n \in {0, 1}, list \in FrameLists(MaxFrames, {0, 1}) \ {<<>>} }

\* the chunks of stream cut behind its a-th and b-th bytes, as the entries of
\* the reassembler's output queue of a gapless flow
ChunkQueue(stream, a, b) ==
    << <<Some(SubSeq(stream, 1, a)), FALSE>>,
       <<Some(SubSeq(stream, a + 1, b)), FALSE>>,
       <<Some(SubSeq(stream, b + 1, Len(stream))), FALSE>> >>

InitChunking ==
    /\ \E stream \in Streams :
          \E a \in 0 .. Len(stream) :
             \E b \in a .. Len(stream) :
                arg = Some([stream |-> stream, a |-> a, b |-> b])
    /\ result = None
    /\ IdleReassembler
    /\ IdleSession
    /\ IdleFramer
    /\ IdleExtractor
    /\ IdleDecoder
    /\ IdleCodec

\* session.get_rtp() with the three chunks in the reassembler's output queue
GetRtpOfChunks ==
    /\ result = None
    /\ LET s == [InterleavedSession EXCEPT
                   !.state = PROCESSING_RTP,
                   !.buffer = <<>>,
                   !.reassembler.output_queue =
                       ChunkQueue(arg[1].stream, arg[1].a, arg[1].b)]
           g == GetRtp(s)
       IN  result' = Some([buffer |-> g.session.buffer, yielded |-> g.yielded,
                           raised |-> g.raised])
    /\ UNCHANGED <<dvars, cvars, rvars, svars, fvars, evars, arg>>

NextChunking == GetRtpOfChunks

SpecChunking == InitChunking /\ [][NextChunking]_vars

(***************************************************************************)
(* RTSPDataExtractor.process_next over a capture.  The first loop reads    *)
(* the records that come from an RTSP port and skips the others, the       *)
(* second loop reads the UDP records and skips the others; the content of  *)
(* a record is chosen when the loop that reads it reaches it.              *)
(***************************************************************************)
\* client ports of the RTSP connections in the capture
ClientPorts == {40000}

\* the RTSP connection of the client port, server to client
RtspFlow(client_port) == FiveTuple(1, 2, 554, client_port, "TCP")

\* the next segment the server sends on a connection, in order: the DESCRIBE
\* response first, SETUP responses after it, interleaved data once the
\* connection carries RTP; or a FIN
NextSegments(e, client_port) ==
    LET key == FlowKey(RtspFlow(client_port))
        known == key \in DOMAIN e.rtsp_sessions
        expected == IF known THEN e.rtsp_sessions[key].reassembler.expected_seq ELSE None
        seq == IF expected = None THEN 0 ELSE expected[1]
        payloads ==
            IF key \in DOMAIN e.rtp_over_tcp_sessions
            THEN {EncodeFrame(0, <<128, 96, 0, 1, 0, 0, 0, 1, 0, 0, 0, 7>>)}
            ELSE IF ~known \/ e.rtsp_sessions[key].sdp = None
            THEN {<<STATUS_LINE, 1>>, <<STATUS_LINE, 2>>, <<STATUS_LINE, 7>>}
            ELSE {<<STATUS_LINE, 3>>, <<STATUS_LINE, 4>>, <<STATUS_LINE, 5>>}
    IN  {TcpSegment(1, 2, 554, client_port, seq, data, FALSE, FALSE, 0) : data \in payloads}
            \cup {TcpSegment(1, 2, 554, client_port, seq, <<>>, TRUE, FALSE, 0)}

\* the UDP packets of the capture: the ports of the two SETUP responses, in
\* both directions
UdpPackets ==
    { [src |-> 1, dst |-> 2, proto |-> "UDP", sport |-> 6000, dport |-> 5000],
      [src |-> 2, dst |-> 1, proto |-> "UDP", sport |-> 5000, dport |-> 6000],
      [src |-> 1, dst |-> 2, proto |-> "UDP", sport |-> 6002, dport |-> 5002] }

\* the RTP packets they hold: two sources of a payload type of the SDP and a
\* payload type that is not in it
RtpHeaders ==
    { [ssrc |-> 1, payload_type |-> 96],
      [ssrc |-> 2, payload_type |-> 96],
      [ssrc |-> 1, payload_type |-> 98] }

Init ==
    /\ IdleExtractor
    /\ IdleDecoder
    /\ IdleCodec
    /\ IdleFunction
    /\ IdleReassembler
    /\ IdleSession
    /\ IdleFramer

\* process_next has moved from extractor to e: RTSPDecoder.run handles the
\* tasks it yielded on the way; an exception of either leaves the loop of run
\* for the exit of CloseAllDictValues
AfterExtractorStep(e, opens, processes, next_pass) ==
    LET run == RunTasks(Run(rtp_decoders, run_error),
                        SubSeq(e.tasks, Len(extractor.tasks) + 1, Len(e.tasks)),
                        opens, processes)
    IN  /\ extractor' = e
        /\ rtp_decoders' = run.rtp_decoders
        /\ run_error' = IF run.run_error # None THEN run.run_error ELSE e.raised
        /\ pass' = IF run_error' # None THEN "closing" ELSE next_pass

\* the first loop reads a segment that comes from an RTSP port
FirstPassRtsp ==
    /\ pass = "first"
    /\ n_rtsp < MaxRtsp
    /\ \E client_port \in ClientPorts :
          \E ip \in NextSegments(extractor, client_port) :
              AfterExtractorStep(FirstPassSegment(extractor, ip), TRUE, TRUE, "first")
    /\ n_rtsp' = n_rtsp + 1
    /\ UNCHANGED <<dvars, cvars, n_other, rvars, svars, fvars, pvars>>

\* the first loop skips a record: not IP, not TCP, or not from an RTSP port
FirstPassOther ==
    /\ pass = "first"
    /\ n_other < MaxRtp
    /\ n_other' = n_other + 1
    /\ UNCHANGED <<dvars, cvars, extractor, pass, n_rtsp, rtp_decoders, run_error,
                   rvars, svars, fvars, pvars>>

\* the capture ends: the sessions are finished and the capture is read again
EndFirstPass ==
    /\ pass = "first"
    /\ AfterExtractorStep(FinishSessions(extractor, 1), TRUE, TRUE, "second")
    /\ UNCHANGED <<dvars, cvars, n_rtsp, n_other, rvars, svars, fvars, pvars>>

\* the second loop reads a UDP record that holds an RTP packet
SecondPassRtp ==
    /\ pass = "second"
    /\ n_other > 0
    /\ \E ip \in UdpPackets, rtp_packet \in RtpHeaders, opens, processes \in BOOLEAN :
          AfterExtractorStep(SecondPassPacket(extractor, ip, rtp_packet),
                             opens, processes, "second")
    /\ n_other' = n_other - 1
    /\ UNCHANGED <<dvars, cvars, n_rtsp, rvars, svars, fvars, pvars>>

\* the second loop skips a record: a TCP segment, or another record that is
\* not UDP
SecondPassOther ==
    /\ pass = "second"
    /\ \/ n_rtsp > 0 /\ n_rtsp' = n_rtsp - 1 /\ UNCHANGED n_other
       \/ n_other > 0 /\ n_other' = n_other - 1 /\ UNCHANGED n_rtsp
    /\ UNCHANGED <<dvars, cvars, extractor, pass, rtp_decoders, run_error, rvars, svars, fvars, pvars>>

\* the capture ends again: process_next returns and run leaves its loop
EndSecondPass ==
    /\ pass = "second"
    /\ n_rtsp = 0
    /\ n_other = 0
    /\ pass' = "closing"
    /\ UNCHANGED <<dvars, cvars, extractor, n_rtsp, n_other, rtp_decoders, run_error,
                   rvars, svars, fvars, pvars>>

\* CloseAllDictValues closes the next decoder; an exception of close leaves
\* the loop and run
CloseDecoder ==
    /\ pass = "closing"
    /\ Unclosed(rtp_decoders) # {}
    /\ \E path \in ClosePaths :
          LET ident == Min(Unclosed(rtp_decoders))
          IN  /\ rtp_decoders' = [rtp_decoders EXCEPT ![ident] = RTPDecoderClose(@, path)]
              /\ run_error' = IF path = "returns" THEN run_error ELSE Some("close")
              /\ pass' = IF path = "returns" THEN "closing" ELSE "end"
    /\ UNCHANGED <<dvars, cvars, extractor, n_rtsp, n_other, rvars, svars, fvars, pvars>>

\* every decoder has been closed: run returns, or raises what left its loop
EndRun ==
    /\ pass = "closing"
    /\ Unclosed(rtp_decoders) = {}
    /\ pass' = "end"
    /\ UNCHANGED <<dvars, cvars, extractor, n_rtsp, n_other, rtp_decoders, run_error,
                   rvars, svars, fvars, pvars>>

Next ==
    \/ FirstPassRtsp
    \/ FirstPassOther
    \/ EndFirstPass
    \/ SecondPassRtp
    \/ SecondPassOther
    \/ EndSecondPass
    \/ CloseDecoder
    \/ EndRun

Spec == Init /\ [][Next]_vars

(***************************************************************************)
(* FiveTuple.__hash__ on its own: two five tuples are keyed                *)
(***************************************************************************)
\* endpoints whose renderings share digits across the ':' of ip and port
Endpoints == {1, 12} \X {2, 23, 3}
Protocols == {"TCP", "UDP"}
FiveTuples ==
    {FiveTuple(a[1], b[1], a[2], b[2], p) : a \in Endpoints, b \in Endpoints, p \in Protocols}

InitFlowKey ==
    /\ \E ft1 \in FiveTuples, ft2 \in FiveTuples : arg = Some(<<ft1, ft2>>)
    /\ result = None
    /\ IdleReassembler
    /\ IdleSession
    /\ IdleFramer
    /\ IdleExtractor
    /\ IdleDecoder
    /\ IdleCodec

\* hash(ft1), hash(ft2): what ft1 == ft2 compares
HashBoth ==
    /\ result = None
    /\ result' = Some(<<FlowKey(arg[1][1]), FlowKey(arg[1][2])>>)
    /\ UNCHANGED <<dvars, cvars, rvars, svars, fvars, evars, arg>>

NextFlowKey == HashBoth

SpecFlowKey == InitFlowKey /\ [][NextFlowKey]_vars

(***************************************************************************)
(* CodecH264.handle_aggregated_packet (src/rtspcap/codecs/h264.py)         *)
(***************************************************************************)
H264_STARTING_SEQUENCE == <<0, 0, 0, 1>>

\* int.from_bytes(nal_size_bytes, byteorder="little")
NalSize(nal_size_bytes) == nal_size_bytes[1] + 256 * nal_size_bytes[2]

\* handle_aggregated_packet(codec_ctx, buf, skip_between): the buffers it hands
\* to codec_ctx.parse, in order
RECURSIVE HandleAggregatedPacket(_, _)
HandleAggregatedPacket(buf, skip_between) ==
    IF Len(buf) > 2
    THEN LET nal_size == NalSize(SubSeq(buf, 1, 2))
             buf1 == SubSeq(buf, 3, Len(buf))
         IN  IF nal_size > Len(buf1) THEN <<>>
             ELSE <<H264_STARTING_SEQUENCE \o SubSeq(buf1, 1, nal_size)>>
                  \o HandleAggregatedPacket(
                        SubSeq(buf1, nal_size + skip_between + 1, Len(buf1)),
                        skip_between)
    ELSE <<>>

\* a well-formed STAP-A payload (RFC 6184, 5.7.1): every NAL unit preceded by
\* its size in two bytes, network byte order
RECURSIVE EncodeStapA(_)
EncodeStapA(nal_units) ==
    IF nal_units = <<>> THEN <<>>
    ELSE <<Len(nal_units[1]) \div 256, Len(nal_units[1]) % 256>> \o nal_units[1]
         \o EncodeStapA(Tail(nal_units))

NalBytes == {0, 1, 101}
NalUnits == UNION {[1 .. n -> NalBytes] : n \in 1 .. MaxNalSize}
NalUnitLists == UNION {[1 .. m -> NalUnits] : m \in 1 .. MaxNalUnits}

InitH264 ==
    /\ \E nal_units \in NalUnitLists :
          arg = Some([nal_units |-> nal_units, buf |-> EncodeStapA(nal_units)])
    /\ result = None
    /\ IdleReassembler
    /\ IdleSession
    /\ IdleFramer
    /\ IdleExtractor
    /\ IdleDecoder
    /\ IdleCodec

\* handle_packet of a payload with NAL type 24: handle_aggregated_packet(buf[1:])
AggregatedPacket ==
    /\ result = None
    /\ result' = Some(HandleAggregatedPacket(arg[1].buf, 0))
    /\ UNCHANGED <<dvars, cvars, rvars, svars, fvars, evars, arg>>

NextH264 == AggregatedPacket

SpecH264 == InitH264 /\ [][NextH264]_vars

(***************************************************************************)
(* RTPDecoder of src/rtspcap/rtp.py: the frame buffer and the output       *)
(* stream.  The codec context and the container belong to the av library:  *)
(* a codec context withholds the frames of its first packets (its delay),  *)
(* gives one frame for every later packet, and knows the frame size (its   *)
(* width is not 0) once it has decoded a packet with the parameter sets.   *)
(* A frame is the number of its place in decode order.                     *)
(***************************************************************************)
RTP_SEQ_BIT_SIZE == 16
MAX_OUT_OF_ORDER_PACKETS == 50
FRAME_BUFFER_SIZE == 100

\* the RTP packets a stream has at most
MaxRtpPackets == 104

\* RTPDecoder.__init__; encoded is what out_stream.encode was given so far,
\* frames in the order of the calls and 0 for encode(None)
RTPDecoderObject(delay) ==
    [ reassembler |-> Reassembler(RTP_SEQ_BIT_SIZE, MAX_OUT_OF_ORDER_PACKETS, "packet"),
      frame_buffer |-> <<>>,
      out_stream |-> None,
      stream_codec |-> [ready |-> FALSE, delay |-> delay, decoded |-> 0],
      encoded |-> <<>>,
      container_closed |-> FALSE ]

\* RTPCodec.handle_packet: CodecBase.handle_packet parses nothing for None
\* and the payload of a packet otherwise, here into one codec packet
CodecHandlePacket(packet) == IF packet = None THEN <<>> ELSE <<packet[1]>>

\* RTPCodec.decode: the codec context after the call and the frames returned
CodecDecode(codec, out_packet) ==
    LET c == [codec EXCEPT !.ready = @ \/ out_packet.sps]
    IN  IF c.delay > 0
        THEN [codec |-> [c EXCEPT !.delay = @ - 1], frames |-> <<>>]
        ELSE [codec |-> [c EXCEPT !.decoded = @ + 1], frames |-> <<c.decoded + 1>>]

\* RTPDecoder._init_out_stream, when the container accepts the stream
InitOutStream(d) == [d EXCEPT !.out_stream = Some("stream")]

\* the loop "for frame in frames" with out_stream.encode(frame)
EncodeAndMux(d, frame_list) == [d EXCEPT !.encoded = @ \o frame_list]

\* a mutant of FrameBufferFull: the buffer is never found full
FrameBufferFull_Never(d) == FALSE

\* "len(self._frame_buffer) >= self.FRAME_BUFFER_SIZE"
FrameBufferFull(d) == Len(d.frame_buffer) >= FRAME_BUFFER_SIZE

\* the body of "for out_packet in out_packets" of _handle_packet
HandleOutPacket(d, out_packet) ==
    LET dec == CodecDecode(d.stream_codec, out_packet)
        d1 == [d EXCEPT !.stream_codec = dec.codec]
    IN  IF d1.out_stream = None
        THEN LET d2 == IF ~d1.stream_codec.ready
                       THEN [d1 EXCEPT !.frame_buffer = @ \o dec.frames]
                       ELSE d1
             IN  IF ~d1.stream_codec.ready /\ ~FrameBufferFull(d2)
                 THEN d2
                 ELSE EncodeAndMux([InitOutStream(d2) EXCEPT !.frame_buffer = <<>>],
                                   d2.frame_buffer \o dec.frames)
        ELSE EncodeAndMux(d1, dec.frames)

\* RTPDecoder._handle_packet
RECURSIVE HandleOutPackets(_, _)
HandleOutPackets(d, out_packets) ==
    IF out_packets = <<>> THEN d
    ELSE HandleOutPackets(HandleOutPacket(d, Head(out_packets)), Tail(out_packets))
HandlePacket(d, packet) == HandleOutPackets(d, CodecHandlePacket(packet))

\* the loop over self._reassembler.get_output_packets() of process_rtp_packet
\* and of close, which leaves the loop behind the end sentinel
RECURSIVE HandleOutput(_)
HandleOutput(d) ==
    IF d.reassembler.output_queue = <<>> THEN d
    ELSE LET out_packet == Head(d.reassembler.output_queue)[1]
             d1 == HandlePacket([d EXCEPT !.reassembler.output_queue = Tail(@)], out_packet)
         IN  IF out_packet = None THEN d1 ELSE HandleOutput(d1)

\* RTPDecoder.process_rtp_packet
DecoderProcessRtpPacket(d, rtp_packet) ==
    HandleOutput([d EXCEPT !.reassembler = Process(@, Some(rtp_packet), rtp_packet.seq)])

\* RTPDecoder._flush_encoder
FlushEncoder(d) == IF d.out_stream = None THEN d ELSE EncodeAndMux(d, <<0>>)

\* RTPDecoder.close, when no library call raises
DecoderClose(d) ==
    LET d1 == IF d.out_stream = None /\ d.frame_buffer # <<>>
              THEN EncodeAndMux([InitOutStream(d) EXCEPT !.frame_buffer = <<>>],
                                d.frame_buffer)
              ELSE d
        d2 == HandleOutput([d1 EXCEPT !.reassembler = Process(@, None, -1)])
    IN  [FlushEncoder(d2) EXCEPT !.container_closed = TRUE]

\* the delays of the codec contexts, in packets
DecoderDelays == {0, 1}
\* the sequence number of the packet with the parameter sets, if there is one
ParameterSetPackets == {None, Some(0), Some(3)}

InitDecoder ==
    /\ \E delay \in DecoderDelays : slot = RTPDecoderObject(delay)
    /\ \E at \in ParameterSetPackets :
          rtp_stream = [next_seq |-> 0, lost |-> FALSE, parameter_sets |-> at]
    /\ IdleReassembler
    /\ IdleSession
    /\ IdleFramer
    /\ IdleExtractor
    /\ IdleFunction
    /\ IdleCodec

\* rtp_decoder.process_rtp_packet(rtp_packet) with the next packet of the
\* stream; one packet of the stream may be lost on the way
DecoderPacket ==
    /\ ~slot.container_closed
    /\ rtp_stream.next_seq < MaxRtpPackets
    /\ \E loss \in BOOLEAN :
          /\ loss => ~rtp_stream.lost
          /\ LET seq == rtp_stream.next_seq + (IF loss THEN 1 ELSE 0)
                 rtp_packet == [seq |-> seq, sps |-> Some(seq) = rtp_stream.parameter_sets]
             IN  /\ slot' = DecoderProcessRtpPacket(slot, rtp_packet)
                 /\ rtp_stream' = [rtp_stream EXCEPT !.next_seq = seq + 1,
                                                     !.lost = @ \/ loss]
    /\ UNCHANGED <<cvars, rvars, svars, fvars, evars, pvars>>

\* rtp_decoder.close()
DecoderClosed ==
    /\ ~slot.container_closed
    /\ slot' = DecoderClose(slot)
    /\ UNCHANGED <<rtp_stream, cvars, rvars, svars, fvars, evars, pvars>>

NextDecoder == DecoderPacket \/ DecoderClosed

SpecDecoder == InitDecoder /\ [][NextDecoder]_vars

(***************************************************************************)
(* RTPCodecMPEG4_GENERIC.handle_packet from the data section on: the       *)
(* fragments of access units.  A bytes object is the list of its pieces, a *)
(* piece being len bytes of the payload of packet number tag.              *)
(***************************************************************************)
MAX_AAC_HBR_FRAME_SIZE == 8191

\* the RTP packets a stream of access units has at most
MaxAacPackets == 3

\* len(bytes)
RECURSIVE ByteCount(_)
ByteCount(b) == IF b = <<>> THEN 0 ELSE b[1].len + ByteCount(Tail(b))

\* bytes[:n]
RECURSIVE TakeBytes(_, _)
TakeBytes(b, n) ==
    IF n = 0 \/ b = <<>> THEN <<>>
    ELSE IF b[1].len <= n THEN <<b[1]>> \o TakeBytes(Tail(b), n - b[1].len)
    ELSE <<[b[1] EXCEPT !.len = n]>>

\* AACContext() with the timestamp of the stream's first packet known
AACContext == [rtptime |-> 0, buf |-> <<>>, expected_buf_size |-> 0, timestamp |-> 0]

\* _create_av_packet(data, time_base, timestamp)
CreateAvPacket(data, timestamp) == [data |-> data, pts |-> timestamp]

\* what a call leaves: the payload context and the packets it returns
Handled(ctx, out_packets) == [ctx |-> ctx, out_packets |-> out_packets]

\* a mutant of FragmentsComplete: the length of the buffer is not compared
FragmentsComplete_Always(aac_ctx) == TRUE

\* "len(aac_ctx.buf) != aac_ctx.expected_buf_size", negated
FragmentsComplete(aac_ctx) == ByteCount(aac_ctx.buf) = aac_ctx.expected_buf_size

\* RTPCodecMPEG4_GENERIC._handle_fragmented_packet
HandleFragmentedPacket(aac_ctx, au_headers, packet, buf, current_au_timestamp) ==
    IF ByteCount(aac_ctx.buf) = 0 /\ au_headers[1].size > MAX_AAC_HBR_FRAME_SIZE
    THEN Handled(aac_ctx, <<>>)
    ELSE LET c1 == IF ByteCount(aac_ctx.buf) = 0
                   THEN [aac_ctx EXCEPT !.expected_buf_size = au_headers[1].size,
                                        !.timestamp = packet.timestamp]
                   ELSE aac_ctx
         IN  IF \/ c1.timestamp # packet.timestamp
                \/ au_headers[1].size # c1.expected_buf_size
                \/ ByteCount(c1.buf) + ByteCount(buf) > MAX_AAC_HBR_FRAME_SIZE
             THEN Handled([c1 EXCEPT !.expected_buf_size = 0, !.buf = <<>>], <<>>)
             ELSE LET c2 == [c1 EXCEPT !.buf = @ \o buf]
                  IN  IF ~packet.marker THEN Handled(c2, <<>>)
                      ELSE IF ~FragmentsComplete(c2)
                      THEN Handled([c2 EXCEPT !.buf = <<>>], <<>>)
                      ELSE Handled([c2 EXCEPT !.buf = <<>>],
                                   <<CreateAvPacket(c2.buf, current_au_timestamp)>>)

\* RTPCodecMPEG4_GENERIC.handle_packet from "current_au_timestamp -=
\* aac_ctx.rtptime" on, for a packet with one AU-header
HandleDataSection(aac_ctx, au_headers, packet, buf) ==
    LET current_au_timestamp == packet.timestamp - aac_ctx.rtptime
    IN  IF Len(au_headers) = 1 /\ ByteCount(buf) < au_headers[1].size
        THEN HandleFragmentedPacket(aac_ctx, au_headers, packet, buf, current_au_timestamp)
        ELSE Handled(aac_ctx,
                     <<CreateAvPacket(TakeBytes(buf, au_headers[1].size),
                                      current_au_timestamp)>>)

\* the AU-header sizes and the lengths of the data sections of the packets:
\* a unit of two bytes whole or in halves, a unit of the largest size in
\* parts that fit, that are too short or that exceed it, and a unit that is
\* too large
AacPayloads ==
    { <<2, 1>>, <<2, 2>>,
      <<MAX_AAC_HBR_FRAME_SIZE, 1>>,
      <<MAX_AAC_HBR_FRAME_SIZE, MAX_AAC_HBR_FRAME_SIZE \div 2>>,
      <<MAX_AAC_HBR_FRAME_SIZE, MAX_AAC_HBR_FRAME_SIZE \div 2 + 1>>,
      <<MAX_AAC_HBR_FRAME_SIZE + 1, 1>> }
AacTimestamps == {1024, 2048}

InitAac ==
    /\ payload_ctx = AACContext
    /\ rtp_in = <<>>
    /\ av_out = <<>>
    /\ IdleReassembler
    /\ IdleSession
    /\ IdleFramer
    /\ IdleExtractor
    /\ IdleFunction
    /\ IdleDecoder

\* handle_packet(codec_ctx, packet, aac_ctx) with the next packet of the stream
AacPacket ==
    /\ Len(rtp_in) < MaxAacPackets
    /\ \E payload \in AacPayloads, timestamp \in AacTimestamps, marker \in BOOLEAN :
          LET packet == [timestamp |-> timestamp, marker |-> marker,
                         au_size |-> payload[1],
                         data |-> <<[tag |-> Len(rtp_in) + 1, len |-> payload[2]]>>]
              h == HandleDataSection(payload_ctx, <<[size |-> packet.au_size, index |-> 0]>>,
                                     packet, packet.data)
          IN  /\ payload_ctx' = h.ctx
              /\ rtp_in' = Append(rtp_in, packet)
              /\ av_out' = av_out \o h.out_packets
    /\ UNCHANGED <<dvars, rvars, svars, fvars, evars, pvars>>

NextAac == AacPacket

SpecAac == InitAac /\ [][NextAac]_vars

(***************************************************************************)
(* RTPCodecH264.handle_packet of src/rtsp_decoder/codecs/rtp_codecs: the   *)
(* fragmentation units (FU-A) of NAL units                                 *)
(***************************************************************************)
\* the RTP packets a stream of NAL units has at most
MaxFuaPackets == 4

\* H264Context() as get_codec_context leaves it: rtptime is known when the
\* RTSP PLAY response gave an RTP-Info
H264Context(rtptime) ==
    [ rtptime |-> rtptime,
      fragments_buf |-> <<>>,
      last_fragment_seq |-> -1,
      fragment_timestamp |-> 0 ]

\* "fu_indicator & 0xE0 | nal_type"
ReconstructedNal(fu_indicator, fu_header) ==
    (fu_indicator \div 32) * 32 + (fu_header % 32)
\* "fu_header >> 7"
StartBit(fu_header) == fu_header \div 128

\* a mutant of NextFragment: every fragment is taken as the next one
NextFragment_Any(h264_ctx, seq) == TRUE

\* "seq != (h264_ctx.last_fragment_seq + 1)", negated
NextFragment(h264_ctx, seq) == seq = h264_ctx.last_fragment_seq + 1

\* RTPCodecH264._handle_fu_a_packet
HandleFuAPacket(h264_ctx, buf, seq, timestamp) ==
    IF Len(buf) < 3 THEN Handled([h264_ctx EXCEPT !.fragments_buf = <<>>], <<>>)
    ELSE IF h264_ctx.last_fragment_seq >= 0 /\ ~NextFragment(h264_ctx, seq)
    THEN Handled([h264_ctx EXCEPT !.last_fragment_seq = -1, !.fragments_buf = <<>>], <<>>)
    ELSE LET nal == ReconstructedNal(buf[1], buf[2])
             rest == From(buf, 2)
         IN  IF StartBit(buf[2]) # 0
             THEN LET out_packets ==
                          IF h264_ctx.fragments_buf # <<>>
                          THEN <<CreateAvPacket(h264_ctx.fragments_buf, timestamp)>>
                          ELSE <<>>
                  IN  Handled([h264_ctx EXCEPT
                                  !.fragment_timestamp = timestamp,
                                  !.last_fragment_seq = seq,
                                  !.fragments_buf = H264_STARTING_SEQUENCE \o <<nal>> \o rest],
                              out_packets)
             ELSE IF h264_ctx.last_fragment_seq < 0
             THEN Handled([h264_ctx EXCEPT !.fragments_buf = <<>>], <<>>)
             ELSE Handled([h264_ctx EXCEPT !.last_fragment_seq = seq,
                                           !.fragments_buf = @ \o rest], <<>>)

\* the NAL units of an aggregated packet as codec packets
AggregatedAvPackets(buf, timestamp) ==
    LET units == HandleAggregatedPacket(buf, 0)
    IN  [i \in 1 .. Len(units) |-> CreateAvPacket(units[i], timestamp)]

\* RTPCodecH264.handle_packet; packet is None or Some of a packet
H264HandlePacket(h264_ctx, packet) ==
    IF packet = None THEN Handled(h264_ctx, <<CreateAvPacket(None, None)>>)
    ELSE IF Len(packet[1].payload) = 0 THEN Handled(h264_ctx, None)
    ELSE IF h264_ctx.rtptime = None
    THEN Handled([h264_ctx EXCEPT !.rtptime = Some(packet[1].timestamp)], <<>>)
    ELSE LET buf == packet[1].payload
             nal_type == IF buf[1] % 32 >= 1 /\ buf[1] % 32 <= 23 THEN 1 ELSE buf[1] % 32
             current_timestamp == packet[1].timestamp - h264_ctx.rtptime[1]
             current_seq == packet[1].seq
             ends == /\ nal_type # 28
                     /\ current_seq > 0
                     /\ current_seq = h264_ctx.last_fragment_seq + 1
             first == IF ends
                      THEN <<CreateAvPacket(h264_ctx.fragments_buf,
                                            h264_ctx.fragment_timestamp)>>
                      ELSE <<>>
             c1 == IF ends
                   THEN [h264_ctx EXCEPT !.fragments_buf = <<>>, !.last_fragment_seq = -1]
                   ELSE h264_ctx
         IN  IF nal_type = 0 \/ nal_type = 1
             THEN Handled(c1, first \o <<CreateAvPacket(H264_STARTING_SEQUENCE \o buf,
                                                       current_timestamp)>>)
             ELSE IF nal_type = 24
             THEN Handled(c1, first \o AggregatedAvPackets(Tail(buf), current_timestamp))
             ELSE IF nal_type = 28
             THEN LET h == HandleFuAPacket(c1, buf, current_seq, current_timestamp)
                  IN  Handled(h.ctx, first \o h.out_packets)
             ELSE Handled(c1, first)

\* the payloads of the packets, d being the byte that tells them apart: the
\* first, a middle and the last fragment of a NAL unit of type 5, and a NAL
\* unit of type 1 in a packet of its own
FuaPayloads(d) == { <<124, 133, d>>, <<124, 5, d>>, <<124, 69, d>>, <<65, d>> }
\* the sequence numbers of the first packet of a stream
FirstSeqs == {1, 65534}
RtpTimestamp == 3000

InitFua ==
    /\ \E rtptime \in {None, Some(RtpTimestamp)} : payload_ctx = H264Context(rtptime)
    /\ rtp_in = <<>>
    /\ av_out = <<>>
    /\ IdleReassembler
    /\ IdleSession
    /\ IdleFramer
    /\ IdleExtractor
    /\ IdleFunction
    /\ IdleDecoder

\* the stream was flushed: handle_packet was given None
Flushed == rtp_in # <<>> /\ rtp_in[Len(rtp_in)] = None

\* handle_packet(codec_ctx, packet, h264_ctx) with the next packet of the
\* stream that arrives; the packet before it may have been lost
FuaPacket ==
    /\ ~Flushed
    /\ Len(rtp_in) < MaxFuaPackets
    /\ \E payload \in FuaPayloads(Len(rtp_in) + 1), lost \in BOOLEAN, first \in FirstSeqs :
          LET seq == IF rtp_in = <<>> THEN first
                     ELSE (rtp_in[Len(rtp_in)][1].seq + (IF lost THEN 2 ELSE 1))
                              % Pow2(RTP_SEQ_BIT_SIZE)
              packet == [seq |-> seq, timestamp |-> RtpTimestamp, payload |-> payload]
              h == H264HandlePacket(payload_ctx, Some(packet))
          IN  /\ payload_ctx' = h.ctx
              /\ rtp_in' = Append(rtp_in, Some(packet))
              /\ av_out' = av_out \o h.out_packets
    /\ UNCHANGED <<dvars, rvars, svars, fvars, evars, pvars>>

\* handle_packet(codec_ctx, None, h264_ctx) at the end of the stream
FuaFlush ==
    /\ ~Flushed
    /\ LET h == H264HandlePacket(payload_ctx, None)
       IN  /\ payload_ctx' = h.ctx
           /\ av_out' = av_out \o h.out_packets
    /\ rtp_in' = Append(rtp_in, None)
    /\ UNCHANGED <<dvars, rvars, svars, fvars, evars, pvars>>

NextFua == FuaPacket \/ FuaFlush

SpecFua == InitFua /\ [][NextFua]_vars

(***************************************************************************)
(* Properties of the Reassembler                                           *)
(***************************************************************************)
K == reasm.max_out_of_order
Held == DOMAIN reasm.out_of_order_packets
Emitted == reasm.output_queue

\* the packets fed so far (the calls with a packet), as sequence numbers
FedPackets == SelectSeq(fed, LAMBDA c : c[1] # None)
FedSeqSet(n) == {FedPackets[i][2] : i \in 1 .. n}

\* no duplicates and no gaps: the sequence numbers fed are exactly lo .. hi,
\* and the stream starts with its first packet, lo
NoDuplicatesNoGaps ==
    LET n == Len(FedPackets)
    IN  /\ n >= 1
        /\ \A i, j \in 1 .. n : i # j => FedPackets[i][2] # FedPackets[j][2]
        /\ FedSeqSet(n) = FedPackets[1][2] .. (FedPackets[1][2] + n - 1)

\* after the first n packets: how many packets have arrived ahead of the
\* smallest sequence number that is still missing
OutOfOrderWindow(n) ==
    LET all == FedSeqSet(Len(FedPackets))
        missing == all \ FedSeqSet(n)
    IN  IF missing = {} THEN 0
        ELSE Cardinality({s \in FedSeqSet(n) : s > Min(missing)})

\* the input in ascending sequence order, nothing skipped, then the sentinel
RECURSIVE Ascending(_)
Ascending(S) ==
    IF S = {} THEN <<>>
    ELSE LET i == CHOOSE i \in S : \A j \in S : FedPackets[i][2] <= FedPackets[j][2]
         IN  <<<<FedPackets[i][1], FALSE>>>> \o Ascending(S \ {i})

\* C2: lossless reordering. For a finite input without duplicates and gaps whose
\* out-of-order window never exceeds K, feeding every packet and then finalizing
\* emits exactly the input packets, each once, in ascending sequence order,
\* every one with skipped = FALSE.
C2_LosslessReordering ==
    ( /\ reasm.done
      /\ NoDuplicatesNoGaps
      /\ \A n \in 1 .. Len(FedPackets) : OutOfOrderWindow(n) <= K )
    => Emitted = Ascending(1 .. Len(FedPackets)) \o <<<<None, FALSE>>>>

\* the entries a step appends to the output queue
NewEmissions == SubSeq(reasm'.output_queue, Len(reasm.output_queue) + 1,
                       Len(reasm'.output_queue))
\* a process call with a packet whose seq is not the expected one
OutOfOrderCall ==
    /\ r_last' = "process"
    /\ reasm.expected_seq # None
    /\ fed'[Len(fed')][2] # reasm.expected_seq[1]
\* the hold table as the call leaves it when it forces no progress
HeldWith ==
    IF fed'[Len(fed')][2] > reasm.expected_seq[1]
    THEN Held \cup {fed'[Len(fed')][2]} ELSE Held

C4_BoundedHold == Cardinality(Held) <= K

\* packets are held out of order, as many as the code ever holds
C4_Witness ==
    /\ r_last = "process"
    /\ Held # {}
    /\ Cardinality(Held) = K - 1

\* the packets were fed in order: each seq is the successor modulo 2^W of the one before
FedInOrder ==
    /\ fed # <<>>
    /\ \A i \in 1 .. Len(fed) :
          /\ fed[i][1] # None
          /\ i > 1 => fed[i][2] = (fed[i - 1][2] + 1) % Pow2(SeqBits)

\* C5: sequence wraparound. Packets arriving in order, also across the wrap
\* 2^W-1, 0, 1, are each emitted immediately with skipped = FALSE and nothing is
\* held; once a packet has been fed, expected stays within [0, 2^W).
C5_Wraparound ==
    /\ (fed # <<>> /\ fed[1][1] # None) =>
          /\ reasm.expected_seq # None
          /\ reasm.expected_seq[1] \in SeqNumbers
    /\ FedInOrder =>
          /\ Emitted = [i \in 1 .. Len(fed) |-> <<fed[i][1], FALSE>>]
          /\ Held = {}
          /\ reasm.expected_seq = Some((fed[Len(fed)][2] + 1) % Pow2(SeqBits))

\* the packets 2^W-1, 0, 1 were fed in this order and all three were emitted
C5_Witness ==
    /\ Len(fed) = 3
    /\ FedInOrder
    /\ fed[1][2] = Pow2(SeqBits) - 1
    /\ fed[3][2] = 1
    /\ Len(Emitted) = 3

(***************************************************************************)
(* Properties of the RTSPSession                                           *)
(***************************************************************************)
\* C6 as claimed: the session state only moves forward along PROCESSING_RTSP,
\* RTSP_READY, PROCESSING_RTP, DONE (the order of the values of RTSPSessionState).
C6_MonotonicState == [][sess'.state >= sess.state]_vars

\* C6 amended: the session state never returns to PROCESSING_RTSP once it has
\* left it and is never RTSP_READY or INVALID; process_packet keeps the state or
\* moves it to DONE; get_rtp moves it to PROCESSING_RTP from any state, also
\* from DONE.
C6_NeverBackToRtsp ==
    [][ /\ sess.state # PROCESSING_RTSP => sess'.state # PROCESSING_RTSP
        /\ sess'.state \in {PROCESSING_RTSP, PROCESSING_RTP, DONE}
        /\ s_last' = "get_rtp" => sess'.state = PROCESSING_RTP
        /\ s_last' # "get_rtp" => sess'.state \in {sess.state, DONE} ]_vars

\* the flow has ended, which made the session DONE, and a later get_rtp has
\* moved it to PROCESSING_RTP
C6_Witness ==
    /\ s_ended
    /\ s_last = "get_rtp"
    /\ sess.state = PROCESSING_RTP

\* C7: the session is DONE as soon as SDP is known and the number of collected
\* transport headers equals the number of SDP medias, or when the flow ends
\* (FIN or None), and it is not DONE before one of these has happened.
C7_DoneWhenComplete ==
    /\ (AllTransportHeaders(sess) \/ s_ended) => sess.state # PROCESSING_RTSP
    /\ sess.state = DONE => (s_complete \/ s_ended)

(***************************************************************************)
(* Properties of the interleaved framer                                    *)
(***************************************************************************)
IsPrefix(a, b) == Len(a) <= Len(b) /\ a = SubSeq(b, 1, Len(a))

\* the RTP packets of the frames on the session's data channels, in order
RECURSIVE DataPackets(_)
DataPackets(list) ==
    IF list = <<>> THEN <<>>
    ELSE (IF InList(list[1].channel, sess.data_channels)
          THEN <<RTPPacketFromDpkt(list[1].packet)>> ELSE <<>>)
            \o DataPackets(Tail(list))

AllOnDataChannels ==
    \A i \in 1 .. Len(frames.list) : InList(frames.list[i].channel, sess.data_channels)

\* every byte of the wire has reached get_rtp
AllFramed ==
    /\ frames.list # <<>>
    /\ wire = <<>>
    /\ sess.reassembler.output_queue = <<>>

\* C9: interleaved framing round trip. n RTP packets encoded as `$`, data
\* channel, 16-bit big-endian length, payload and fed gaplessly to get_rtp are
\* yielded exactly, in order; junk before the first magic byte yields nothing.
C9_FramingRoundTrip ==
    AllOnDataChannels =>
        /\ \E k \in 0 .. Len(frames.list) :
              yielded = [i \in 1 .. k |-> RTPPacketFromDpkt(frames.list[i].packet)]
        /\ AllFramed =>
              yielded = [i \in 1 .. Len(frames.list) |->
                            RTPPacketFromDpkt(frames.list[i].packet)]

\* junk and two frames on the data channel have been framed
C9_Witness ==
    /\ AllFramed
    /\ AllOnDataChannels
    /\ frames.junk # <<>>
    /\ Len(frames.list) = 2
    /\ Len(yielded) = 2

\* C10: every RTP packet yielded comes from a frame on one of the session's data
\* channels; a valid frame on a control channel is consumed from the
\* accumulator and yields nothing.
C10_OnlyDataChannels ==
    /\ IsPrefix(yielded, DataPackets(frames.list))
    /\ AllFramed => /\ yielded = DataPackets(frames.list)
                    /\ sess.buffer = <<>>

\* a frame on the control channel and a later frame on the data channel have
\* been framed
C10_Witness ==
    /\ AllFramed
    /\ Len(frames.list) = 2
    /\ InList(frames.list[1].channel, sess.control_channels)
    /\ InList(frames.list[2].channel, sess.data_channels)
    /\ yielded = <<RTPPacketFromDpkt(frames.list[2].packet)>>

(***************************************************************************)
(* Properties of the RTSPDataExtractor                                     *)
(***************************************************************************)
Tasks == extractor.tasks
ProcessTasks == {k \in 1 .. Len(Tasks) : Tasks[k].ttype = PROCESS_RTP_PACKET}

\* C1 (identity stability): every RTP packet handled so far was processed
\* under the decoder id that the table holds for its identity now, so an
\* identity that was mapped once keeps its id whatever packets follow
C1_IdentityStability ==
    \A k \in ProcessTasks :
        /\ Tasks[k].rtpid \in DOMAIN extractor.rtp_id_to_ident
        /\ extractor.rtp_id_to_ident[Tasks[k].rtpid] = Tasks[k].ident

\* two packets of one identity were processed, with a packet of another
\* identity between them
C1_Witness ==
    \E i, j, k \in ProcessTasks :
        /\ i < j /\ j < k
        /\ Tasks[i].rtpid = Tasks[k].rtpid
        /\ Tasks[j].rtpid # Tasks[i].rtpid
        /\ Tasks[i].ident = Tasks[k].ident

\* C8 (transport resolution completeness): the resolution of the transport
\* headers of a session ends without an error, for any number of headers
C8_ResolutionWithoutError == extractor.raised # Some("IndexError")

CreateTasks == {k \in 1 .. Len(Tasks) : Tasks[k].ttype = CREATE_DECODER}

\* C11 (two-pass ordering): a step yields tasks for a UDP packet only in the
\* second loop, after the first loop and the finishing of the sessions, and
\* only for a flow key that a resolved UDP transport header had registered;
\* nothing is registered once the second loop runs
C11_TwoPassOrdering ==
    [][ /\ \A k \in (Len(Tasks) + 1) .. Len(Tasks') :
              Tasks'[k].rtpid[1][2] = "UDP" =>
                  /\ pass = "second"
                  /\ Tasks'[k].rtpid[1] \in DOMAIN extractor.rtp_over_udp_sessions
        /\ pass = "second" =>
              extractor'.rtp_over_udp_sessions = extractor.rtp_over_udp_sessions ]_vars

\* a UDP packet has been processed after a session that was still collecting
\* transport headers was finished at the end of the first pass
C11_Witness ==
    /\ ProcessTasks # {}
    /\ pass = "second"
    /\ \E key \in DOMAIN extractor.rtsp_sessions :
          extractor.rtsp_sessions[key].reassembler.done

\* C12 (association failure): an RTP packet whose payload type matches no
\* SDP media of its session is dropped and the run continues
C12_AssociationFailureContinues == extractor.raised # Some("NameError")

\* the decoder ids whose CreateDecoder task left no decoder
FailedIdents == {Tasks[k].ident : k \in CreateTasks} \ DOMAIN rtp_decoders

ProcessCount(ident) == Cardinality({k \in ProcessTasks : Tasks[k].ident = ident})

\* C13 (creation failure is isolated): a codec that is not in the codec map
\* leaves no decoder and no output file for its id, a failed creation does
\* not end the run, the ProcessPacket tasks of its id are dropped, and every
\* other decoder has received each packet of its id
C13_CreationFailureIsolated ==
    /\ \A k \in CreateTasks :
          Casefold(get_codec_name_from_sdp_media(Tasks[k].sdp_media)) \notin CODEC_MAP
              => Tasks[k].ident \in FailedIdents
    /\ \A ident \in FailedIdents :
          \A other \in DOMAIN rtp_decoders :
              rtp_decoders[other].output_path # OutputPath(ident)
    /\ \A ident \in DOMAIN rtp_decoders : rtp_decoders[ident].packets = ProcessCount(ident)
    /\ (run_error # None /\ pass # "end") =>
          \/ extractor.raised # None
          \/ \E ident \in DOMAIN rtp_decoders : rtp_decoders[ident].packets > 0

\* the creation of a decoder failed, a later packet of its id was dropped
\* and the decoder of another id received a packet after that
C13_Witness ==
    /\ run_error = None
    /\ \E i, j, k \in ProcessTasks :
          /\ i < j /\ j < k
          /\ Tasks[i].ident \in FailedIdents
          /\ Tasks[j].ident = Tasks[i].ident
          /\ Tasks[k].ident \in DOMAIN rtp_decoders
          /\ rtp_decoders[Tasks[k].ident].packets > 0

\* the codec of the SDP is not in the codec map
C13_UnsupportedCodec ==
    \E k \in CreateTasks :
        Casefold(get_codec_name_from_sdp_media(Tasks[k].sdp_media)) \notin CODEC_MAP

\* C14 (close isolation): when the run has ended, close has been attempted on
\* every decoder that was created
C14_EveryDecoderClosed ==
    pass = "end" => \A ident \in DOMAIN rtp_decoders : rtp_decoders[ident].close_called

\* C15 (teardown on all exit paths): whenever close has run on a decoder, the
\* encoder flush was attempted and the container was closed
C15_FlushThenClose ==
    \A ident \in DOMAIN rtp_decoders :
        rtp_decoders[ident].close_called =>
            /\ rtp_decoders[ident].flush_attempted
            /\ rtp_decoders[ident].container_closed

\* C16 (unique outputs): the decoder ids are handed out as 0, 1, 2, ... in
\* the order of the CreateDecoder tasks, distinct identities have distinct
\* ids, and distinct decoders write to distinct paths
C16_UniqueOutputs ==
    /\ \A k \in CreateTasks : Tasks[k].ident = Cardinality({j \in CreateTasks : j < k})
    /\ \A x, y \in DOMAIN extractor.rtp_id_to_ident :
          x # y => extractor.rtp_id_to_ident[x] # extractor.rtp_id_to_ident[y]
    /\ \A x, y \in DOMAIN rtp_decoders :
          x # y => rtp_decoders[x].output_path # rtp_decoders[y].output_path
    /\ \A x \in DOMAIN rtp_decoders : rtp_decoders[x].output_path = OutputPath(x)

\* two decoders exist, for two identities
C16_Witness ==
    /\ Cardinality(DOMAIN rtp_decoders) = 2
    /\ Cardinality(DOMAIN extractor.rtp_id_to_ident) = 2

\* C17 (end-of-pass finalization): the finishing of the sessions at the end
\* of the first pass raises nothing and leaves every session DONE
C17_FinalizationLeavesAllDone ==
    [][ (pass = "first" /\ pass' # "first" /\ n_rtsp' = n_rtsp) =>
            /\ extractor'.raised = None
            /\ \A key \in DOMAIN extractor'.rtsp_sessions :
                  extractor'.rtsp_sessions[key].state = DONE ]_vars

\* C18: H.264 aggregated (STAP-A) packets. For a well-formed aggregated payload
\* describing NAL units u_1..u_m, with every size field in big-endian, the
\* depacketizer emits, in order, exactly the start code 00 00 00 01 followed by
\* u_i for each i.
C18_StapABigEndian ==
    result # None =>
        result[1] = [i \in 1 .. Len(arg[1].nal_units) |->
                        H264_STARTING_SEQUENCE \o arg[1].nal_units[i]]

\* the endpoints of a five tuple, without direction
Peers(ft) == {<<ft.src_ip, ft.src_port>>, <<ft.dst_ip, ft.dst_port>>}

\* C19: flow key symmetry. The key of a packet from a to b equals the key of a
\* packet from b to a with the same protocol, and the keys of flows that differ
\* in an endpoint or in the protocol are different.
C19_FlowKeySymmetry ==
    result # None =>
        LET ft1 == arg[1][1]
            ft2 == arg[1][2]
        IN  (result[1][1] = result[1][2])
                <=> (Peers(ft1) = Peers(ft2) /\ ft1.proto = ft2.proto)

\* both cases have been keyed: a flow and its reverse, with different endpoints
C19_Witness ==
    /\ result # None
    /\ arg[1][1].src_ip # arg[1][1].dst_ip
    /\ arg[1][2] = FiveTuple(arg[1][1].dst_ip, arg[1][1].src_ip,
                             arg[1][1].dst_port, arg[1][1].src_port, arg[1][1].proto)
    /\ result[1][1] = result[1][2]

\* the hold table with the arriving packet in it, if the call holds it
HeldPacketsWith ==
    IF fed'[Len(fed')][2] > reasm.expected_seq[1]
    THEN MapPut(reasm.out_of_order_packets, fed'[Len(fed')][2], fed'[Len(fed')][1][1])
    ELSE reasm.out_of_order_packets

\* how many sequence numbers starting with s are held one after the other
RECURSIVE RunLength(_, _)
RunLength(S, s) ==
    IF s \notin S THEN 0
    ELSE 1 + RunLength(S \ {s}, (s + 1) % Pow2(reasm.seq_bit_size))

\* C20: forced rebase of Reassembler.process. When the hold limit is reached
\* without the expected sequence number arriving, expected is set to the
\* smallest held sequence number, that packet is emitted with skipped = true,
\* then held packets are emitted with skipped = false for as long as the
\* advancing expected is in the hold table; no other held packet is emitted or
\* removed by the call.
C20_ForcedRebase ==
    [][ (OutOfOrderCall /\ Cardinality(HeldWith) >= K) =>
          LET m == Min(HeldWith)
              n == RunLength(HeldWith, m)
              run == [i \in 1 .. n |-> (m + i - 1) % Pow2(reasm.seq_bit_size)]
          IN  /\ SubSeq(reasm'.output_queue, 1, Len(reasm.output_queue))
                    = reasm.output_queue
              /\ NewEmissions =
                    [i \in 1 .. n |-> <<Some(HeldPacketsWith[run[i]]), i = 1>>]
              /\ reasm'.out_of_order_packets =
                    [s \in HeldWith \ {run[i] : i \in 1 .. n} |-> HeldPacketsWith[s]]
              /\ reasm'.expected_seq = Some((m + n) % Pow2(reasm.seq_bit_size)) ]_vars

\* the last call forced a rebase onto the packet it was given, and a held
\* successor was emitted behind it
C20_Witness ==
    /\ r_last = "process"
    /\ \E i \in 1 .. Len(Emitted) - 1 :
          /\ Emitted[i] = <<fed[Len(fed)][1], TRUE>>
          /\ Emitted[i + 1][2] = FALSE

\* the sequence numbers of S in ascending order
RECURSIVE SortedSeq(_)
SortedSeq(S) == IF S = {} THEN <<>> ELSE <<Min(S)>> \o SortedSeq(S \ {Min(S)})

\* C21: finalization of the Reassembler. process(None) empties the hold table,
\* emitting all held packets in ascending sequence-number order, each flagged
\* skipped exactly when its sequence number differs from expected at that
\* moment, and then appends exactly one sentinel (None, FALSE) as the last
\* element of the output; every later process call raises an error and leaves
\* the object as it is.
C21_Finalization ==
    [][ /\ r_last' = "end" =>
              LET asc == SortedSeq(Held)
                  n == Len(asc)
                  expected_at(i) ==
                      IF i = 1 THEN reasm.expected_seq[1]
                      ELSE (asc[i - 1] + 1) % Pow2(reasm.seq_bit_size)
              IN  /\ reasm'.done
                  /\ reasm'.out_of_order_packets = EmptyMap
                  /\ SubSeq(reasm'.output_queue, 1, Len(reasm.output_queue))
                        = reasm.output_queue
                  /\ NewEmissions =
                        [i \in 1 .. n + 1 |->
                            IF i = n + 1 THEN <<None, FALSE>>
                            ELSE <<Some(reasm.out_of_order_packets[asc[i]]),
                                   asc[i] # expected_at(i)>>]
                  /\ \A i \in 1 .. Len(reasm'.output_queue) - 1 :
                        reasm'.output_queue[i][1] # None
        /\ reasm.done => (r_last' = "raised" /\ reasm' = reasm) ]_vars

\* two held packets were emitted by the finalization, the first flagged and
\* its successor not, and a later call has raised
C21_Witness ==
    /\ r_last = "raised"
    /\ Len(fed) = 4
    /\ fed[4][1] = None
    /\ Len(Emitted) = 4
    /\ Emitted[2] = <<fed[3][1], TRUE>>
    /\ Emitted[3] = <<fed[2][1], FALSE>>
    /\ Emitted[4] = <<None, FALSE>>

\* how far seq is ahead of expected in the cyclic space modulo 2^W
CyclicDistance(seq, expected) ==
    (seq - expected + Pow2(reasm.seq_bit_size)) % Pow2(reasm.seq_bit_size)

\* C22: cyclic hold rule. A packet passed to process with seq different from
\* expected is taken into the hold table exactly when seq is ahead of expected
\* in the cyclic sequence space modulo 2^W (seq 0 while expected is 2^W - 1);
\* a packet whose seq is behind expected is neither emitted nor held.
C22_CyclicHold ==
    [][ OutOfOrderCall =>
          LET seq == fed'[Len(fed')][2]
              packet == fed'[Len(fed')][1]
              d == CyclicDistance(seq, reasm.expected_seq[1])
              half == Pow2(reasm.seq_bit_size - 1)
              taken == \/ /\ seq \in DOMAIN reasm'.out_of_order_packets
                          /\ reasm'.out_of_order_packets[seq] = packet[1]
                       \/ \E i \in 1 .. Len(NewEmissions) : NewEmissions[i][1] = packet
          IN  /\ d < half => taken
              /\ d > half => ~taken ]_vars

\* C23: exhaustive RTSP parsing. When process_packet has returned, every
\* complete response of the accumulator has been parsed and classified: no
\* response is left at the head of the accumulator for a later chunk.
C23_ExhaustiveParsing ==
    (s_last \in {"data", "fin", "none"} /\ ~s_raised)
        => ParseResponse(sess.buffer).result # "ok"

\* what the claim says of a session s that drains the chunks q of its
\* reassembler: a chunk behind a gap ends a fully described session without
\* being parsed, and otherwise replaces the accumulator instead of extending it
RECURSIVE AfterChunks(_, _)
AfterChunks(s, q) ==
    IF q = <<>> \/ s.state # PROCESSING_RTSP THEN s
    ELSE IF q[1][1] = None THEN [s EXCEPT !.state = DONE]
    ELSE IF q[1][2] /\ AllTransportHeaders(s) THEN [s EXCEPT !.state = DONE]
    ELSE AfterChunks(
            ParseRtspResponse(
                [s EXCEPT !.buffer = (IF q[1][2] THEN <<>> ELSE @) \o q[1][1][1]]),
            Tail(q))

\* the session fields that the drain of the chunks decides
Described(s) == <<s.sdp, s.transport_headers, s.buffer, s.state>>

\* C24: gap handling in the RTSP session. For each drained chunk flagged
\* skipped, a session that already has its SDP and as many transport headers
\* as SDP medias becomes DONE and the chunk is not parsed; otherwise the
\* accumulator is emptied before the chunk is appended, so that bytes from
\* before the gap are never parsed together with bytes after it.
C24_GapHandling ==
    [][ (sess.state = PROCESSING_RTSP /\ ~sess.reassembler.done) =>
          /\ \A seq \in SessionSeqs, data \in SessionPayloads :
                (/\ s_last' = "data"
                 /\ sess' = SessionProcessPacket(sess,
                               Some(FromServer(seq, data, FALSE, FALSE, 0))).session)
                => Described(sess') =
                      Described(AfterChunks(sess,
                          Process(sess.reassembler, Some(data), seq).output_queue))
          /\ s_last' = "none" =>
                Described(sess') =
                   Described(AfterChunks(sess,
                       Process(sess.reassembler, None, -1).output_queue)) ]_vars

\* a fully described session was given a chunk behind a gap: the chunk, a
\* DESCRIBE and a SETUP response held at sequence number 6, was drained at
\* the end but not parsed, and the drain stopped before the sentinel
C24_Witness ==
    /\ s_last = "none"
    /\ sess.state = DONE
    /\ sess.reassembler.output_queue = <<<<None, FALSE>>>>
    /\ sess.reassembler.expected_seq = Some(2)
    /\ sess.buffer = <<>>
    /\ sess.sdp = Some(Sdp(<<96>>, <<"H264">>))
    /\ Len(sess.transport_headers) = 1

\* the flows of the capture that carry interleaved RTP
InterleavedFlows ==
    {FlowKey(RtspFlow(client_port)) : client_port \in ClientPorts}
        \cap DOMAIN extractor.rtp_over_tcp_sessions

\* C25: interleaved routing. A segment the server sends on an RTSP connection
\* that has entered interleaved RTP mode is still given to the session of the
\* connection: its payload (or its FIN) reaches the byte reassembler of the
\* session before the interleaved framer runs.
C25_InterleavedRouting ==
    [][ (/\ pass = "first"
         /\ n_rtsp' = n_rtsp + 1
         /\ InterleavedFlows = {FlowKey(RtspFlow(client_port)) : client_port \in ClientPorts})
        => \E key \in InterleavedFlows :
              extractor'.rtsp_sessions[key].reassembler
                 # extractor.rtsp_sessions[key].reassembler ]_vars

\* the elements of a list
Elements(list) == {list[i] : i \in 1 .. Len(list)}

\* C26: channel registration. Once the transport header RTP/AVP/TCP with
\* interleaved=N-M of a DONE session has been resolved, N is in the
\* data_channels of the session and M is in its control_channels.
C26_ChannelRegistration ==
    \A key \in DOMAIN extractor.rtp_over_tcp_sessions :
        LET interleaved == RTSPResponse(5).transport[1].options.interleaved
            rtsp_session == extractor.rtsp_sessions[key]
        IN  /\ interleaved[1] \in Elements(extractor.rtp_over_tcp_sessions[key].channels)
            /\ interleaved[1] \in Elements(rtsp_session.data_channels)
            /\ interleaved[2] \in Elements(rtsp_session.control_channels)

\* the header at offset off of buf (0-based) is one the claim accepts: magic
\* 0x24, a channel of the session's data or control channels, a length in
\* 12 .. 8192
Accepted(buf, off) ==
    /\ buf[off + 1] = 36
    /\ buf[off + 2] \in Elements(InterleavedSession.data_channels)
                           \cup Elements(InterleavedSession.control_channels)
    /\ buf[off + 3] * 256 + buf[off + 4] \in 12 .. 8192

\* the offset at which the claimed framer rests on buf when it starts at off,
\* and the frame payloads of data channels it has passed on the way
RECURSIVE Framed(_, _, _)
Framed(buf, off, payloads) ==
    IF Len(buf) - off < 4 THEN [off |-> off, payloads |-> payloads]
    ELSE IF Accepted(buf, off)
    THEN LET length == buf[off + 3] * 256 + buf[off + 4]
         IN  IF Len(buf) - off - 4 < length THEN [off |-> off, payloads |-> payloads]
             ELSE Framed(buf, off + 4 + length,
                         IF buf[off + 2] \in Elements(InterleavedSession.data_channels)
                         THEN Append(payloads, SubSeq(buf, off + 5, off + 4 + length))
                         ELSE payloads)
    ELSE LET later == {j \in (off + 1) .. (Len(buf) - 1) : buf[j + 1] = 36}
         IN  IF later = {} THEN [off |-> Len(buf), payloads |-> payloads]
             ELSE Framed(buf, Min(later), payloads)

\* C27: frame validation and resynchronization. The framer accepts a header at
\* the current offset only if its first byte is 0x24, its channel is in the
\* session's data or control channel lists and 12 <= length <= 8192; otherwise
\* it discards bytes up to the next 0x24 after the current offset, or the whole
\* accumulator if there is none, and retries; each discard shortens the
\* accumulator, so the scan ends.
C27_ValidationAndResync ==
    /\ arg # None =>
          LET buf == arg[1]
          IN  (Len(buf) >= 4 /\ ~Accepted(buf, 0)) =>
                 /\ Len(Resync(buf)) < Len(buf)
                 /\ Resync(buf) # <<>> => Resync(buf)[1] = 36
                 /\ \A i \in 2 .. (Len(buf) - Len(Resync(buf))) : buf[i] # 36
                 /\ Resync(buf) = SubSeq(buf, Len(buf) - Len(Resync(buf)) + 1, Len(buf))
    /\ result # None =>
          LET rest == Framed(arg[1], 0, <<>>)
          IN  /\ result[1].buffer = SubSeq(arg[1], rest.off + 1, Len(arg[1]))
              /\ result[1].yielded =
                    [i \in 1 .. Len(rest.payloads) |-> RTPPacketFromDpkt(rest.payloads[i])]

\* junk that starts with a header whose length is too small was discarded up
\* to the frame behind it, which was yielded
C27_Witness ==
    /\ result # None
    /\ \E junk \in Accumulators :
          /\ Len(junk) = 5
          /\ junk[1] = 36 /\ junk[2] = 0 /\ junk[3] = 0 /\ junk[4] = 1
          /\ arg[1] = junk \o EncodeFrame(0, <<64, 96, 0, 1, 0, 0, 0, 1, 0, 0, 0, 7>>)
    /\ result[1].buffer = <<>>
    /\ Len(result[1].yielded) = 1

\* C28: gap handling in the interleaved framer. get_rtp takes a chunk that the
\* reassembler flagged skipped by clearing the bytes accumulated before the gap
\* and resuming at the first 0x24 of the chunk: the call ends without an
\* error, whatever the accumulator held.
C28_GapInFramer == s_last = "get_rtp" => ~s_raised

\* the positions of the tasks of a decoder id
CreatesOf(ident) == {k \in CreateTasks : Tasks[k].ident = ident}
ProcessesOf(ident) == {k \in ProcessTasks : Tasks[k].ident = ident}

\* C29: task ordering. For every decoder id exactly one CreateDecoder task is
\* emitted, it precedes every ProcessPacket task of that id, and the RTP packet
\* that caused the id to be allocated is itself emitted, directly behind the
\* CreateDecoder task, as the first ProcessPacket task of that id; run creates
\* no decoder without such a task.
C29_TaskOrdering ==
    /\ \A ident \in {Tasks[k].ident : k \in 1 .. Len(Tasks)} :
          /\ Cardinality(CreatesOf(ident)) = 1
          /\ \A k \in CreatesOf(ident) :
                /\ \A p \in ProcessesOf(ident) : k < p
                /\ k + 1 \in ProcessesOf(ident)
                /\ Tasks[k + 1].rtpid = Tasks[k].rtpid
    /\ \A ident \in DOMAIN rtp_decoders : CreatesOf(ident) # {}

\* two identities have their decoders, and a second packet of the first
\* identity was emitted after the decoder of the second was created
C29_Witness ==
    \E a, b \in DOMAIN rtp_decoders :
        /\ a # b
        /\ Cardinality(ProcessesOf(a)) >= 2
        /\ \E p \in ProcessesOf(a), k \in CreatesOf(b) : k < p

\* C30: invalid marking is per identity. After an association failure for one
\* identity, the second loop goes on for as long as the capture has records:
\* the RTP packets of other identities on the same flow whose payload type is
\* in the SDP are still given a decoder id and processed.
C30_InvalidPerIdentity ==
    (extractor.raised = Some("NameError") /\ n_other > 0) => pass = "second"

\* C31: a failed slot leaves no identity entry. When the creation of the
\* decoder of a newly seen identity fails, no decoder is created and the
\* identity is not added to the table of identities: every identity of the
\* table has its decoder.
C31_FailedSlotNoIdentity ==
    \A rtpid \in DOMAIN extractor.rtp_id_to_ident :
        extractor.rtp_id_to_ident[rtpid] \in DOMAIN rtp_decoders

\* C36: no deliverable packet stays held. After every call of process that
\* returns, before finalization, the expected sequence number is not a key of
\* the table of held packets: a held packet that has become the next in order
\* was emitted by the call that made it so.
C36_NoDeliverableHeld ==
    (~reasm.done /\ reasm.expected_seq # None)
        => reasm.expected_seq[1] \notin Held

\* the items of the output queue that are packets, without the end sentinel
EmittedItems ==
    {Emitted[i][1][1] : i \in {j \in 1 .. Len(Emitted) : Emitted[j][1] # None}}
\* the items passed to process so far
FedItems == {FedPackets[i][1][1] : i \in 1 .. Len(FedPackets)}

\* C37: conservation. For any input, lossy, duplicated or reordered, every
\* emitted item that is not the end sentinel was passed to a process call,
\* no item is emitted twice, and after finalization no item is held: every
\* item was emitted or dropped.
C37_Conservation ==
    /\ EmittedItems \subseteq FedItems
    /\ \A i, j \in 1 .. Len(Emitted) :
          (i # j /\ Emitted[i][1] # None) => Emitted[i][1] # Emitted[j][1]
    /\ Held \subseteq {FedPackets[i][2] : i \in 1 .. Len(FedPackets)}
    /\ \A seq \in Held : reasm.out_of_order_packets[seq] \in FedItems \ EmittedItems
    /\ reasm.done => Held = {}

\* a finalized run of a duplicated, reordered and lossy input: a sequence
\* number was passed twice, an item was dropped, a gap was flagged, and a
\* forced rebase happened before the end
C37_Witness ==
    /\ reasm.done
    /\ \E i, j \in 1 .. Len(FedPackets) : i # j /\ FedPackets[i][2] = FedPackets[j][2]
    /\ FedItems \ EmittedItems # {}
    /\ \E i \in 1 .. Len(Emitted) - 1 :
          /\ Emitted[i][2]
          /\ \E j \in (i + 1) .. Len(Emitted) : Emitted[j][1] # None /\ ~Emitted[j][2]

\* the output queue of the session's reassembler holds a chunk flagged skipped
SkippedChunkQueued ==
    \E i \in 1 .. Len(sess.reassembler.output_queue) :
        /\ sess.reassembler.output_queue[i][2]
        /\ sess.reassembler.output_queue[i][1] \notin {None, Some(<<>>)}

\* C38: gap robustness of the framer. A call of get_rtp that receives a chunk
\* flagged skipped does not raise, whatever the accumulator holds at that
\* moment, an empty one or one shorter than the 4 byte header included.
C38_GapRobustness ==
    [][(SkippedChunkQueued /\ s_last' = "get_rtp") => ~s_raised']_vars

\* the RTP packets of a stream that reaches the frame loop in one piece
WholeStream(stream) ==
    FrameLoop([session |-> [InterleavedSession EXCEPT !.state = PROCESSING_RTP,
                                                      !.buffer = stream],
               yielded |-> <<>>, raised |-> FALSE])

\* C39: chunking independence of the framer. For a gapless interleaved stream
\* the RTP packets yielded by get_rtp are the same for every way of cutting
\* the stream into chunks, cuts inside the 4 byte header and inside a payload
\* included: they are the packets of the stream taken in one piece, and the
\* accumulator is left the same.
C39_ChunkingIndependence ==
    result # None =>
        /\ ~result[1].raised
        /\ result[1].yielded = WholeStream(arg[1].stream).yielded
        /\ result[1].buffer = WholeStream(arg[1].stream).session.buffer

\* two frames, the first cut inside its header and the second inside its
\* payload, and both packets were yielded
C39_Witness ==
    /\ result # None
    /\ arg[1].stream = EncodeFrames(<<[channel |-> 0, packet |-> <<128, 96, 0, 1, 0, 0, 0, 1, 0, 0, 0, 7>>],
                                      [channel |-> 0, packet |-> <<128, 97, 0, 2, 36, 0, 0, 12, 36, 1, 0, 12, 9>>]>>)
    /\ arg[1].a = 2
    /\ arg[1].b = 25
    /\ Len(result[1].yielded) = 2

(***************************************************************************)
(* Properties of RTPDecoder                                                *)
(***************************************************************************)
\* the frames given to the encoder, without the flush
EncodedFrames == SelectSeq(slot.encoded, LAMBDA f : f # 0)
\* the frames decoded so far, in decode order
DecodedFrames == [i \in 1 .. slot.stream_codec.decoded |-> i]

\* C32: frame conservation. Once the output stream is open, every frame
\* decoded so far has been passed to the encoder exactly once and in decode
\* order, buffered frames before current frames, whether the stream was
\* opened because the codec became ready or because the frame buffer filled.
C32_FrameConservation ==
    slot.out_stream # None => EncodedFrames = DecodedFrames

C40_NoFrameLostAtClose ==
    slot.container_closed =>
        /\ slot.frame_buffer = <<>>
        /\ \A f \in 1 .. slot.stream_codec.decoded :
              \E i \in 1 .. Len(slot.encoded) :
                  /\ slot.encoded[i] = f
                  /\ \A j \in 1 .. i : slot.encoded[j] # 0

(***************************************************************************)
(* Properties of the depacketizers                                         *)
(***************************************************************************)
\* the packet of the step is a fragment: its data section is shorter than
\* the size its AU-header announces
FragmentStep ==
    /\ Len(rtp_in') = Len(rtp_in) + 1
    /\ ByteCount(rtp_in'[Len(rtp_in')].data) < rtp_in'[Len(rtp_in')].au_size
\* the packet of the step
StepPacket == rtp_in'[Len(rtp_in')]
\* the buffer does not fit the packet of the step
Inconsistent ==
    \/ payload_ctx.timestamp # StepPacket.timestamp
    \/ payload_ctx.expected_buf_size # StepPacket.au_size
    \/ ByteCount(payload_ctx.buf) + ByteCount(StepPacket.data) > MAX_AAC_HBR_FRAME_SIZE

\* C34: AAC fragment reassembly. Over any sequence of fragment packets an
\* access unit is emitted from the fragment buffer only on a packet with the
\* marker bit and only when the buffered length equals the size announced by
\* the AU-header, and it is the buffered fragments in order; a timestamp
\* change, a change of the announced size or a buffer that would exceed 8191
\* bytes discards the buffer; the buffer never exceeds 8191 bytes and is
\* empty after every emission and every discard.
C34_AacFragments ==
    /\ [](ByteCount(payload_ctx.buf) <= MAX_AAC_HBR_FRAME_SIZE)
    /\ [][FragmentStep =>
            /\ Len(av_out') <= Len(av_out) + 1
            /\ Len(av_out') = Len(av_out) + 1 =>
                  /\ StepPacket.marker
                  /\ av_out'[Len(av_out')].data = payload_ctx.buf \o StepPacket.data
                  /\ ByteCount(av_out'[Len(av_out')].data) = StepPacket.au_size
                  /\ payload_ctx'.buf = <<>>
            /\ (payload_ctx.buf # <<>> /\ Inconsistent) =>
                  /\ payload_ctx'.buf = <<>>
                  /\ av_out' = av_out
            /\ (StepPacket.marker /\ Len(av_out') = Len(av_out)) =>
                  payload_ctx'.buf = <<>>
            /\ (payload_ctx.buf # <<>> /\ ~Inconsistent /\ ~StepPacket.marker) =>
                  payload_ctx'.buf = payload_ctx.buf \o StepPacket.data]_vars

\* a fragment with the marker bit that left the buffer short of the announced
\* size was discarded, and then an access unit of the largest size was
\* emitted from two fragments
C34_Witness ==
    /\ Len(rtp_in) = 3
    /\ rtp_in[1].marker
    /\ ByteCount(rtp_in[1].data) < rtp_in[1].au_size
    /\ rtp_in[2].au_size = MAX_AAC_HBR_FRAME_SIZE
    /\ Len(av_out) = 1
    /\ av_out[1].data = rtp_in[2].data \o rtp_in[3].data
    /\ ByteCount(av_out[1].data) = MAX_AAC_HBR_FRAME_SIZE
    /\ payload_ctx.buf = <<>>

\* the packets of the stream before the flush
FuaPackets == SelectSeq(rtp_in, LAMBDA p : p # None)
IsFuA(i) == FuaPackets[i][1].payload[1] % 32 = 28
IsStart(i) == IsFuA(i) /\ StartBit(FuaPackets[i][1].payload[2]) # 0
IsContinuation(i) == IsFuA(i) /\ StartBit(FuaPackets[i][1].payload[2]) = 0
\* the packets i .. j are a group delivered without loss: a start fragment,
\* then all the continuation fragments that follow it, with consecutive
\* 16 bit sequence numbers
FuaGroup(i, j) ==
    /\ i < j
    /\ IsStart(i)
    /\ \A k \in (i + 1) .. j :
          /\ IsContinuation(k)
          /\ FuaPackets[k][1].seq = (FuaPackets[k - 1][1].seq + 1) % Pow2(RTP_SEQ_BIT_SIZE)
    /\ (j < Len(FuaPackets) => ~IsContinuation(j + 1))
\* the payloads of the fragments i .. j behind their two header bytes
RECURSIVE FragmentPayloads(_, _)
FragmentPayloads(i, j) ==
    IF i > j THEN <<>>
    ELSE From(FuaPackets[i][1].payload, 2) \o FragmentPayloads(i + 1, j)
\* the access unit of the group
GroupUnit(i, j) ==
    H264_STARTING_SEQUENCE
        \o <<ReconstructedNal(FuaPackets[i][1].payload[1], FuaPackets[i][1].payload[2])>>
        \o FragmentPayloads(i, j)

\* C35: H.264 FU-A grouping. For every FU-A group delivered without loss,
\* wherever it lies in the sequence-number space and in the stream, exactly
\* one access unit has been emitted for it once the stream is flushed: the
\* start code, the reconstructed NAL header and the payloads of the fragments;
\* this holds for the complete groups behind a lost fragment too.
C35_FuaGrouping ==
    Flushed =>
        \A i, j \in 1 .. Len(FuaPackets) :
            FuaGroup(i, j) =>
                Cardinality({k \in 1 .. Len(av_out) : av_out[k].data = GroupUnit(i, j)}) = 1

====
